---- MODULE Spec2Model ----
(***************************************************************************)
(* A model of reth's e2e-test-utils harness:                               *)
(*   - TransactionStream::poll_next, drained by RpcTestContext::inject_   *)
(*     stream, with the wallet's nonce counter (transaction.rs, rpc.rs);   *)
(*   - NodeTestContext::advance_many / advance / new_payload and the       *)
(*     polling loops assert_new_block, wait_until_block_is_available and   *)
(*     wait_unwind (node.rs).                                              *)
(*   - the scenarios of the e2e tests over them: the optimistic sync and   *)
(*     the reorg of the optimism can_sync test (p2p.rs).                   *)
(*   - TestNetworkBuilder::build and connect_nodes (lib.rs).               *)
(* Each subsystem has its own next-state relation over the shared state.   *)
(***************************************************************************)
EXTENDS Naturals, Sequences, FiniteSets

\* ------------------------------------------------------------------ bounds

\* Interval deadlines that elapse after the immediate first tick.
MaxTicks == 2
\* Generator invocations (generation tasks ever started) of the stream.
MaxTx == 3
\* Generation tasks started by the other user of the wallet's counter.
MaxOther == 3

\* Payloads the node's payload builder builds in one run.
MaxBlocks == 2
\* Largest `length` handed to advance_many.
MaxLength == 2
\* Top-level calls the test makes on one NodeTestContext.
MaxCalls == 2
\* Height the node's canonical chain and its stage checkpoints can reach
\* while the polling loops are watched.
MaxHeight == 2
\* Largest `peers` handed to TestNetworkBuilder::new.
MaxPeers == 4
\* Transaction generators a test may hand to the builder.
MaxGenerators == 2

VARIABLES
    \* --- TransactionStream (transaction.rs:24-30) and its consumer
    pending_future,   \* Option: <<>> or <<task>>, the in-flight generation task
    interval,         \* tokio Interval: [due, waker]
    pc,               \* where the for_each task is: in poll_next or around it
    woken,            \* the for_each task has been woken since its last poll
    nonce,            \* TransactionTestContext.nonce, the Arc<Mutex<u64>>
    in_call,          \* the poll_next call in progress: [ticked, generated,
                      \*   polled, passes, due0, fired0]
    poll_ret,         \* Option: what the last poll_next call returned
    sends,            \* send_raw_transaction calls of the closure, in start order
    \* --- another task signing with a clone of the same wallet
    other,            \* Option: <<>> or <<task>>
    \* --- history
    produced,         \* transactions in the order their tasks returned them
    started,          \* generator invocations of the stream
    otherStarted,     \* tasks started by the other user
    ticksFired,       \* interval deadlines elapsed so far, the first included
    \* --- NodeTestContext (node.rs:24-35) and the test calling it
    tx_stream,        \* Option<TransactionStream>: <<>> or <<stream id>>
    h_pc,             \* where the test is inside the NodeTestContext call
    call,             \* the top-level call in progress: [op, length]
    idx,              \* advance_many: iterations of the for loop completed
    chain,            \* advance_many: the Vec of (payload, attributes)
    cur,              \* advance: [attr, payload, block_hash], each an Option
    ret,              \* what the last advance / advance_many returned
    \* --- the node behind the engine API, provider and payload builder
    canon,            \* canonical chain: canon[k] is the hash at height k
    tree,             \* blocks the node knows (built or submitted)
    fcuTarget,        \* Option: head of an accepted fork-choice, not yet committed
    timestamp,        \* PayloadTestContext.timestamp
    job,              \* Option: the payload job [attr, block, built]
    finish_cp,        \* Option: block number of the StageId::Finish checkpoint
    headers_cp,       \* Option: block number of the StageId::Headers checkpoint
    \* --- a test inside assert_new_block, wait_until_block_is_available or
    \* --- wait_unwind
    p_pc,             \* where the loop is
    p_call,           \* [op, number, hash]
    p_obs,            \* what the current iteration of the loop has read
    \* --- the optimism can_sync test on its third node (p2p.rs:74-123)
    t_pc,             \* the line of the test that runs next
    sync_target,      \* Option: height the node's pipeline is syncing to
    finalized,        \* Option: number of the node's finalized block
    submits,          \* submit_payload calls made: [payload, expected, reply, outcome]
    \* --- TestNetworkBuilder (lib.rs:47-54) and its build()
    b_pc,             \* the line of build / connect_nodes that runs next
    capacity,         \* self.network.capacity()
    tx_generator,     \* Option: the builder's tx_generator
    node_index,       \* the loop variable of build
    network,          \* self.network: the node contexts pushed so far
    node,             \* Option: the node generated in this iteration
    connects,         \* network.connect calls made: <<from, to>>
    b_ret,            \* Option: what build returned
    \* --- a test over the built network (ethereum p2p.rs:24-41) and the
    \* --- nodes' chains
    s_pc,             \* the line of the test that runs next
    roles,            \* [producer, observer, fcu]: who advances, who is watched
    heads,            \* node id -> that node's canonical chain
    engine_calls,     \* node id -> engine-API calls the test made to it
    \* --- can_replay_blocks (ethereum blocks.rs:39-78) and its fresh node
    r_pc,             \* the line of the test that runs next
    blocks,           \* the blocks of canonical_chain, in order
    attrs,            \* the attributes of canonical_chain, in order
    payloads,         \* the ExecutionPayloadV3 values made of the blocks read back
    r_i,              \* payloads replayed so far
    submission,       \* the answer to the last new_payload_v3, if any
    replica,          \* the fresh node: [tree, target, canon]
    statuses,         \* the status of every answer received, in order
    \* --- callers of engine_api.submit_payload
    u_pc,             \* the caller: "run", or ended by "err" / "panic"
    u_last,           \* the last submission made and how its result was taken
    \* --- WalletGenerator (wallet.rs:11-15) and its callers
    w_gen,            \* the generator: [chain_id, phrase, derivation_path]
    w_asked,          \* the path last passed to derivation_path, if any
    w_ret,            \* the last gen / gen_many call and what it returned
    \* --- the wallets of the node contexts and their nonce counters
    w_cells,          \* the Arc<Mutex<u64>> counters allocated so far
    w_nodes,          \* node contexts: the counters their wallets refer to
    w_signed,         \* transactions signed, in the order they were returned
    \* --- history
    spawned,          \* streams handed to a background injection task
    streamsMade,      \* TransactionStreams constructed for this context
    calls,            \* top-level calls made
    log               \* steps of the call in progress, as they returned

consumerVars == <<in_call, poll_ret, sends>>

streamVars == <<pending_future, interval, pc, woken, nonce, other,
                produced, started, otherStarted, ticksFired, consumerVars>>

harnessVars == <<tx_stream, h_pc, call, idx, chain, cur, ret, spawned,
                 streamsMade, calls, log>>

nodeVars == <<canon, tree, fcuTarget, timestamp, job>>

checkpointVars == <<finish_cp, headers_cp>>

pollVars == <<p_pc, p_call, p_obs>>

reorgVars == <<t_pc, sync_target, finalized, submits>>

netVars == <<b_pc, capacity, tx_generator, node_index, network, node, connects, b_ret>>

syncVars == <<s_pc, roles, heads, engine_calls>>

replayVars == <<r_pc, blocks, attrs, payloads, r_i, submission, replica,
                statuses>>

submitVars == <<u_pc, u_last>>

walletVars == <<w_gen, w_asked, w_ret>>

cloneVars == <<w_cells, w_nodes, w_signed>>

nonReorgVars == <<netVars, syncVars, replayVars, submitVars, walletVars,
                  cloneVars>>

\* What TestNetworkBuilder does not touch.
outsideNet == <<streamVars, harnessVars, nodeVars, checkpointVars, pollVars,
                reorgVars, syncVars, replayVars, submitVars, walletVars, cloneVars>>

\* What a test over the built network does not touch.
outsideSync == <<streamVars, harnessVars, nodeVars, checkpointVars, pollVars,
                 reorgVars, netVars, replayVars, submitVars, walletVars, cloneVars>>

\* What the replay on the fresh node does not touch.
outsideReplay == <<streamVars, harnessVars, nodeVars, checkpointVars, pollVars,
                   reorgVars, netVars, syncVars, submitVars, walletVars, cloneVars>>

\* What a call of submit_payload on its own does not touch.
outsideSubmit == <<streamVars, harnessVars, nodeVars, checkpointVars, pollVars,
                   reorgVars, netVars, syncVars, replayVars, walletVars, cloneVars>>

\* What the wallet generator does not touch.
outsideWallet == <<streamVars, harnessVars, nodeVars, checkpointVars, pollVars,
                   reorgVars, netVars, syncVars, replayVars, submitVars,
                   cloneVars>>

\* What the wallets of the node contexts do not touch.
outsideClones == <<streamVars, harnessVars, nodeVars, checkpointVars, pollVars,
                   reorgVars, netVars, syncVars, replayVars, submitVars,
                   walletVars>>

scenarioVars == <<reorgVars, nonReorgVars>>

vars == <<streamVars, harnessVars, nodeVars, checkpointVars, pollVars, scenarioVars>>

\* ------------------------------------------------- the generation task
\* TransactionTestContext::eip1559 is an async fn with three await points:
\* the lock that reads the nonce, the signature, the lock of inc_nonce.

Stages == <<"lock_read", "sign", "lock_inc">>

StageIdx(at) == CHOOSE i \in 1..3 : Stages[i] = at

\* (self.generator)(): a future that has not been polled yet.
NewTask(id) == [id |-> id, at |-> "lock_read", n |-> 0, blocked |-> FALSE]

inc_nonce_skip(c) == c

\* inc_nonce: lock, *guard += 1.
inc_nonce(c) == c + 1

NonceAfterFailureSpent(c) == c + 1

\* sign_and_encode, line 179: `tx.build(&signer).await?` returns the error
\* before inc_nonce at line 180 is reached.
NonceAfterFailure(c) == c

\* One poll of the future of eip1559, the counter being c: the outcomes a
\* poll can have.  An unblocked task runs from its await point up to an
\* await point j at which it suspends (j = 4: it returns the encoded
\* transaction); the signature may fail, and eip1559 unwraps the failure.
PollTask(t, c) ==
    IF t.blocked
    THEN {[res |-> "Pending", task |-> t, nonce |-> c]}
    ELSE LET i == StageIdx(t.at)
             read == IF i = 1 THEN c ELSE t.n
         IN  { [res   |-> "Pending",
                task  |-> [t EXCEPT !.at = Stages[j], !.blocked = TRUE,
                                    !.n = IF j > 1 THEN read ELSE t.n],
                nonce |-> c] : j \in i..3 }
             \cup
             { [res   |-> "Ready",
                task  |-> [t EXCEPT !.n = read],
                nonce |-> inc_nonce(c)] }
             \cup
             (IF i <= 2
              THEN {[res   |-> "Panic",
                     task  |-> [t EXCEPT !.at = "sign", !.n = read],
                     nonce |-> NonceAfterFailure(c)]}
              ELSE {})

Tx(src, t) == [src |-> src, id |-> t.id, nonce |-> t.n]

\* The passes of the loop of one poll_next call that are counted (a call
\* makes one pass more than it consumes ticks); the count stays there.
MaxPasses == MaxTicks + 2

NextPass(n) == IF n < MaxPasses THEN n + 1 ELSE n

\* A poll_next call entering its loop with `due` ticks outstanding, `fired`
\* periods having elapsed so far: first pass, no tick consumed, no task
\* started, the task not polled.
EnterPoll(due, fired) ==
    [ticked |-> FALSE, generated |-> FALSE, polled |-> FALSE, passes |-> 1,
     due0 |-> due, fired0 |-> fired]

\* Before the first call: the interval's first tick is due.
NoPoll == EnterPoll(1, 1)

\* ------------------------------------------------------- initial state

InitStream ==
    /\ pending_future = <<>>
    /\ interval = [due |-> 1, waker |-> FALSE]
    /\ pc = "ready"
    /\ woken = FALSE
    /\ nonce = 0
    /\ other = <<>>
    /\ produced = <<>>
    /\ started = 0
    /\ otherStarted = 0
    /\ ticksFired = 1
    /\ in_call = NoPoll
    /\ poll_ret = <<>>
    /\ sends = <<>>

NoCall == [op |-> "none", length |-> 0]

NoCur == [attr |-> <<>>, payload |-> <<>>, block_hash |-> <<>>]

\* NodeTestContext::new: the default stream is in the slot; the node holds
\* its genesis block only.
InitHarness ==
    /\ tx_stream = <<1>>
    /\ h_pc = "idle"
    /\ call = NoCall
    /\ idx = 0
    /\ chain = <<>>
    /\ cur = NoCur
    /\ ret = <<>>
    /\ spawned = <<>>
    /\ streamsMade = 1
    /\ calls = 0
    /\ log = <<>>

InitNode ==
    /\ canon = <<>>
    /\ tree = {}
    /\ fcuTarget = <<>>
    /\ timestamp = 0
    /\ job = <<>>

NoObs == [polled |-> FALSE, err |-> FALSE, cp |-> <<>>, latest |-> <<>>,
          fetched |-> FALSE, blk |-> <<>>, retried |-> FALSE]

\* A fresh node has no stage checkpoint; no polling loop is running.
InitPoll ==
    /\ finish_cp = <<>>
    /\ headers_cp = <<>>
    /\ p_pc = "idle"
    /\ p_call = [op |-> "none", number |-> 0, hash |-> 0]
    /\ p_obs = NoObs

\* The third node of the optimism can_sync test is fresh when the test
\* turns to it: nothing synced, nothing finalized, no payload submitted.
InitReorg ==
    /\ t_pc = "l75"
    /\ sync_target = <<>>
    /\ finalized = <<>>
    /\ submits = <<>>

\* No TestNetworkBuilder exists yet.
InitNet ==
    /\ b_pc = "start"
    /\ capacity = 0
    /\ tx_generator = <<>>
    /\ node_index = 0
    /\ network = <<>>
    /\ node = <<>>
    /\ connects = <<>>
    /\ b_ret = <<>>

\* No test runs on a network yet.
InitSync ==
    /\ s_pc = "start"
    /\ roles = [producer |-> 0, observer |-> 0, fcu |-> FALSE]
    /\ heads = <<>>
    /\ engine_calls = <<>>

\* A node at genesis: no block known, no fork-choice target.
FreshNode == [tree |-> {}, target |-> <<>>, canon |-> <<>>]

\* can_replay_blocks before line 43.
InitReplay ==
    /\ r_pc = "l43"
    /\ blocks = <<>>
    /\ attrs = <<>>
    /\ payloads = <<>>
    /\ r_i = 0
    /\ submission = <<>>
    /\ replica = FreshNode
    /\ statuses = <<>>

\* No payload was submitted yet.
InitSubmit ==
    /\ u_pc = "run"
    /\ u_last = <<>>

\* wallet.rs line 7: the default test mnemonic.
TEST_MNEMONIC == "test test test test test test test test test test test junk"

\* wallet.rs line 29: the default of the derivation_path field,
\* "m/44'/60'/0'/0/", character by character.
DefaultDerivationPath ==
    <<"m", "/", "4", "4", "'", "/", "6", "0", "'", "/", "0", "'", "/", "0", "/">>

\* WalletGenerator::new, lines 25-31.
WalletGeneratorNew ==
    [chain_id |-> 1, phrase |-> TEST_MNEMONIC,
     derivation_path |-> DefaultDerivationPath]

\* A generator just constructed; nothing generated yet.
InitWallet ==
    /\ w_gen = WalletGeneratorNew
    /\ w_asked = <<>>
    /\ w_ret = [op |-> "none", of |-> WalletGeneratorNew, asked |-> <<>>,
                wallets |-> <<>>]

\* No node context was made yet: no counter, no transaction.
InitClones ==
    /\ w_cells = <<>>
    /\ w_nodes = <<>>
    /\ w_signed = <<>>

Init ==
    /\ InitStream /\ InitHarness /\ InitNode /\ InitPoll /\ InitReorg
    /\ InitNet /\ InitSync /\ InitReplay /\ InitSubmit /\ InitWallet
    /\ InitClones

\* ------------------------------------------------ TransactionStream

\* stream.for_each polls the stream: at first, after the closure's future
\* of the previous item completed, and when the task is woken.
ForEachPoll ==
    /\ \/ pc = "ready"
       \/ pc = "parked" /\ woken
    /\ pc' = "l87"
    /\ woken' = FALSE
    /\ in_call' = EnterPoll(interval.due, ticksFired)
    /\ UNCHANGED <<pending_future, interval, nonce, other, produced, started,
                   otherStarted, ticksFired, poll_ret, sends>>
    /\ UNCHANGED <<harnessVars, nodeVars, checkpointVars, pollVars, scenarioVars>>

ReturnItemNone(res) == [kind |-> "None", item |-> <<>>]

\* poll_next, line 90: Poll::Ready(Some(res)).
ReturnItem(res) == [kind |-> "Some", item |-> <<res>>]

\* poll_next, line 99: Poll::Pending.
ReturnPending == [kind |-> "Pending", item |-> <<>>]

StartSendFirst(s, raw_tx) == <<[tx |-> raw_tx, done |-> "no"]>> \o s

\* inject_stream, rpc.rs:31-34: for_each calls the closure with the item
\* and polls its future, which calls send_raw_transaction(raw_tx).
StartSend(s, raw_tx) == Append(s, [tx |-> raw_tx, done |-> "no"])

SlotAfterReadyKept(task) == <<task>>

\* poll_next, line 89: self.pending_future = None.
SlotAfterReady(task) == <<>>

\* poll_next, lines 87-92: poll the pending future; Ready clears the slot
\* and returns the item, which for_each hands to the closure in the same
\* poll of the injection task.
PollPending ==
    /\ pc = "l87"
    /\ IF pending_future = <<>>
       THEN /\ pc' = "l94"
            /\ UNCHANGED <<pending_future, nonce, produced, poll_ret, sends,
                           in_call>>
       ELSE \E o \in PollTask(pending_future[1], nonce) :
              /\ nonce' = o.nonce
              /\ CASE o.res = "Ready" ->
                        /\ pending_future' = SlotAfterReady(o.task)
                        /\ produced' = Append(produced, Tx("stream", o.task))
                        /\ poll_ret' = <<ReturnItem(Tx("stream", o.task))>>
                        /\ sends' = StartSend(sends, Tx("stream", o.task))
                        /\ pc' = "sending"
                        /\ UNCHANGED in_call
                   [] o.res = "Pending" ->
                        /\ pending_future' = <<o.task>>
                        /\ produced' = produced
                        /\ pc' = "l94"
                        /\ in_call' = [in_call EXCEPT !.polled = TRUE]
                        /\ UNCHANGED <<poll_ret, sends>>
                   [] OTHER ->
                        /\ pending_future' = <<o.task>>
                        /\ produced' = produced
                        /\ pc' = "panicked"
                        /\ UNCHANGED <<poll_ret, sends, in_call>>
    /\ UNCHANGED <<interval, woken, other, started, otherStarted, ticksFired>>
    /\ UNCHANGED <<harnessVars, nodeVars, checkpointVars, pollVars, scenarioVars>>

ShouldGenerateAlways(pf) == TRUE

ShouldGenerateNever(pf) == FALSE

\* generate_future's test: self.pending_future.is_none().
ShouldGenerate(pf) == pf = <<>>

\* poll_next, line 94, and generate_future.
GenerateFuture ==
    /\ pc = "l94"
    /\ IF ShouldGenerate(pending_future)
       THEN /\ started < MaxTx
            /\ pending_future' = <<NewTask(started + 1)>>
            /\ started' = started + 1
            /\ in_call' = [in_call EXCEPT !.generated = TRUE]
       ELSE UNCHANGED <<pending_future, started, in_call>>
    /\ pc' = "l96"
    /\ UNCHANGED <<interval, woken, nonce, other, produced, otherStarted,
                   ticksFired, poll_ret, sends>>
    /\ UNCHANGED <<harnessVars, nodeVars, checkpointVars, pollVars, scenarioVars>>

PollTickNotReadyForgets(iv) == iv

\* poll_next, line 96: interval.poll_tick(cx) with no deadline elapsed
\* registers the waker of cx with the timer and is Pending.
PollTickNotReady(iv) == [iv EXCEPT !.waker = TRUE]

\* poll_next, lines 96-100: interval.poll_tick.  A deadline that has
\* elapsed is consumed and the loop continues; otherwise the waker is
\* registered with the timer and poll_next returns Pending.
PollTick ==
    /\ pc = "l96"
    /\ IF interval.due > 0
       THEN /\ interval' = [interval EXCEPT !.due = @ - 1]
            /\ in_call' = [in_call EXCEPT !.ticked = TRUE,
                                          !.passes = NextPass(@)]
            /\ pc' = "l87"
            /\ UNCHANGED poll_ret
       ELSE /\ interval' = PollTickNotReady(interval)
            /\ poll_ret' = <<ReturnPending>>
            /\ pc' = "parked"
            /\ UNCHANGED in_call
    /\ UNCHANGED <<pending_future, woken, nonce, other, produced, started,
                   otherStarted, ticksFired, sends>>
    /\ UNCHANGED <<harnessVars, nodeVars, checkpointVars, pollVars, scenarioVars>>

AfterSendStopsOnErr(res) == IF res = "err" THEN "stopped" ELSE "ready"

\* inject_stream, rpc.rs:34-36: `if let Err(e) = .. { error!(..) }`; the
\* closure's future completes either way and for_each goes on.
AfterSend(res) == "ready"

\* The closure of inject_stream: send_raw_transaction returned (Ok, or Err,
\* which is logged), and for_each asks for the next item.
SendDone ==
    /\ pc = "sending"
    /\ \E res \in {"ok", "err"} :
         /\ sends' = [sends EXCEPT ![Len(sends)].done = res]
         /\ pc' = AfterSend(res)
    /\ UNCHANGED <<pending_future, interval, woken, nonce, other, produced,
                   started, otherStarted, ticksFired, in_call, poll_ret>>
    /\ UNCHANGED <<harnessVars, nodeVars, checkpointVars, pollVars, scenarioVars>>

\* Time: one more period of the interval elapses (missed ticks burst).
Tick ==
    /\ ticksFired < 1 + MaxTicks
    /\ ticksFired' = ticksFired + 1
    /\ interval' = [due |-> interval.due + 1, waker |-> FALSE]
    /\ woken' = (woken \/ interval.waker)
    /\ UNCHANGED <<pending_future, pc, nonce, other, produced, started,
                   otherStarted>>
    /\ UNCHANGED consumerVars
    /\ UNCHANGED <<harnessVars, nodeVars, checkpointVars, pollVars, scenarioVars>>

TaskWakeRuns ==
    /\ pending_future # <<>>
    /\ pending_future[1].blocked
    /\ pc # "panicked"
    /\ pending_future' = <<[pending_future[1] EXCEPT !.blocked = FALSE,
                                                     !.at = "lock_inc"]>>
    /\ nonce' = inc_nonce(nonce)
    /\ woken' = TRUE
    /\ UNCHANGED <<interval, pc, other, produced, started,
                   otherStarted, ticksFired>>
    /\ UNCHANGED consumerVars
    /\ UNCHANGED <<harnessVars, nodeVars, checkpointVars, pollVars, scenarioVars>>

\* What the suspended generation task waits for happens: its waker fires.
TaskWake ==
    /\ pending_future # <<>>
    /\ pending_future[1].blocked
    /\ pc # "panicked"
    /\ pending_future' = <<[pending_future[1] EXCEPT !.blocked = FALSE]>>
    /\ woken' = TRUE
    /\ UNCHANGED <<interval, pc, nonce, other, produced, started,
                   otherStarted, ticksFired>>
    /\ UNCHANGED consumerVars
    /\ UNCHANGED <<harnessVars, nodeVars, checkpointVars, pollVars, scenarioVars>>

NextStream ==
    \/ ForEachPoll
    \/ PollPending
    \/ GenerateFuture
    \/ PollTick
    \/ SendDone
    \/ Tick
    \/ TaskWake

\* A single stream draining one wallet.
SpecStream == Init /\ [][NextStream]_vars

\* The injection task and the generation task run whenever they can and
\* time passes; a send may take forever.
FairSpecInject ==
    /\ SpecStream
    /\ WF_vars(ForEachPoll)
    /\ WF_vars(PollPending)
    /\ WF_vars(GenerateFuture)
    /\ WF_vars(PollTick)
    /\ WF_vars(Tick)
    /\ WF_vars(TaskWake)

\* Time goes on after the deadlines that are counted: a further period of
\* the interval elapses once the previous tick was consumed.
TickAgain ==
    /\ ticksFired = 1 + MaxTicks
    /\ interval.due = 0
    /\ interval' = [due |-> 1, waker |-> FALSE]
    /\ woken' = (woken \/ interval.waker)
    /\ UNCHANGED <<pending_future, pc, nonce, other, produced, started,
                   otherStarted, ticksFired>>
    /\ UNCHANGED consumerVars
    /\ UNCHANGED <<harnessVars, nodeVars, checkpointVars, pollVars, scenarioVars>>

\* poll_next, lines 88-90: the step in which the pending future is Ready.
EmitStep ==
    /\ PollPending
    /\ Len(produced') > Len(produced)

NextForever ==
    \/ NextStream
    \/ TickAgain

\* A stream whose timer never stops.
SpecForever == Init /\ [][NextForever]_vars

\* The consumer keeps polling and its sends return, every generation task
\* is woken and in the end completes, the timer keeps firing.
FairSpecForever ==
    /\ SpecForever
    /\ WF_vars(ForEachPoll)
    /\ WF_vars(PollPending)
    /\ SF_vars(EmitStep)
    /\ WF_vars(GenerateFuture)
    /\ WF_vars(PollTick)
    /\ WF_vars(SendDone)
    /\ WF_vars(TaskWake)
    /\ WF_vars(Tick)
    /\ WF_vars(TickAgain)

\* ------------------------------- a second task on the same nonce counter

\* Another holder of a clone of the wallet calls eip1559 (another node's
\* stream over the generator shared by TestNetworkBuilder::build, or the
\* test through node.wallet).
OtherStart ==
    /\ other = <<>>
    /\ otherStarted < MaxOther
    /\ other' = <<NewTask(otherStarted + 1)>>
    /\ otherStarted' = otherStarted + 1
    /\ UNCHANGED <<pending_future, interval, pc, woken, nonce, produced,
                   started, ticksFired>>
    /\ UNCHANGED consumerVars
    /\ UNCHANGED <<harnessVars, nodeVars, checkpointVars, pollVars, scenarioVars>>

OtherPoll ==
    /\ other # <<>>
    /\ ~other[1].blocked
    /\ \E o \in PollTask(other[1], nonce) :
         /\ nonce' = o.nonce
         /\ CASE o.res = "Ready" ->
                   /\ other' = <<>>
                   /\ produced' = Append(produced, Tx("other", o.task))
              [] o.res = "Pending" ->
                   /\ other' = <<o.task>>
                   /\ produced' = produced
              [] OTHER ->
                   /\ other' = <<>>
                   /\ produced' = produced
    /\ UNCHANGED <<pending_future, interval, pc, woken, started,
                   otherStarted, ticksFired>>
    /\ UNCHANGED consumerVars
    /\ UNCHANGED <<harnessVars, nodeVars, checkpointVars, pollVars, scenarioVars>>

OtherWake ==
    /\ other # <<>>
    /\ other[1].blocked
    /\ other' = <<[other[1] EXCEPT !.blocked = FALSE]>>
    /\ UNCHANGED <<pending_future, interval, pc, woken, nonce, produced,
                   started, otherStarted, ticksFired>>
    /\ UNCHANGED consumerVars
    /\ UNCHANGED <<harnessVars, nodeVars, checkpointVars, pollVars, scenarioVars>>

NextShared ==
    \/ NextStream
    \/ OtherStart
    \/ OtherPoll
    \/ OtherWake

\* The stream and one more task sharing the wallet's counter.
SpecShared == Init /\ [][NextShared]_vars

\* One holder of the wallet alone, calling one transaction after another
\* while time passes (a test calling eip4844, whose await points are those
\* of eip1559: the read at line 186, the signature at 179, inc_nonce at
\* 180): a failed signature comes back as Err and the holder calls again.
NextSigner ==
    \/ OtherStart
    \/ OtherPoll
    \/ OtherWake
    \/ Tick

SpecSigner == Init /\ [][NextSigner]_vars

\* ------------------------------------------------------------ the node

\* provider.block_by_number_or_tag(Latest): the tip of the canonical chain
\* (the genesis block, number 0 and hash 0, when nothing was committed).
LatestBlock(c) ==
    IF c = <<>> THEN <<[number |-> 0, hash |-> 0]>>
    ELSE <<[number |-> Len(c), hash |-> c[Len(c)]]>>

\* provider.block_by_number(n).
BlockByNumber(c, n) ==
    IF n = 0 THEN <<[number |-> 0, hash |-> 0]>>
    ELSE IF n <= Len(c) THEN <<[number |-> n, hash |-> c[n]]>>
    ELSE <<>>

\* The block a payload job builds: on the node's latest block; its hash is
\* new (block hashes are injective in what the block holds, and every job
\* has its own timestamp).
BuiltBlock(c, ts) ==
    [number |-> LatestBlock(c)[1].number + 1,
     parent |-> LatestBlock(c)[1].hash,
     hash   |-> ts]

\* The payload builder finished the job's payload.
PayloadBuilt ==
    /\ job # <<>>
    /\ ~job[1].built
    /\ job' = <<[job[1] EXCEPT !.built = TRUE]>>
    /\ UNCHANGED <<scenarioVars, checkpointVars, pollVars, streamVars, harnessVars, canon, tree, fcuTarget, timestamp>>

\* The engine makes the head of an accepted fork-choice update canonical.
NodeCommit ==
    /\ fcuTarget # <<>>
    /\ LET b == fcuTarget[1]
       IN  canon' = Append(SubSeq(canon, 1, b.number - 1), b.hash)
    /\ fcuTarget' = <<>>
    /\ UNCHANGED <<scenarioVars, checkpointVars, pollVars, streamVars, harnessVars, tree, timestamp, job>>

\* ------------------------------------------------------ NodeTestContext

Entry(op, res, a, b, out) ==
    [adv |-> idx + 1, op |-> op, res |-> res, a |-> a, b |-> b, out |-> out]

\* A `?` or a panic inside the call in progress: Err reaches the caller of
\* advance / advance_many, a panic ends the test.
Leave(res) == IF res = "panic" THEN "panic" ELSE "err"

\* The test calls advance_many(length, attributes_generator): line 105.
CallAdvanceMany ==
    /\ h_pc = "idle"
    /\ calls < MaxCalls
    /\ \E length \in 0..MaxLength :
         call' = [op |-> "advance_many", length |-> length]
    /\ h_pc' = "l107"
    /\ chain' = <<>>
    /\ idx' = 0
    /\ log' = <<>>
    /\ ret' = <<>>
    /\ cur' = NoCur
    /\ calls' = calls + 1
    /\ UNCHANGED <<scenarioVars, checkpointVars, pollVars, streamVars, nodeVars, tx_stream, spawned, streamsMade>>

\* The test calls advance(vec![], attributes_generator) itself.
CallAdvance ==
    /\ h_pc = "idle"
    /\ calls < MaxCalls
    /\ call' = [op |-> "advance", length |-> 0]
    /\ h_pc' = "l169"
    /\ chain' = <<>>
    /\ idx' = 0
    /\ log' = <<>>
    /\ ret' = <<>>
    /\ cur' = NoCur
    /\ calls' = calls + 1
    /\ UNCHANGED <<scenarioVars, checkpointVars, pollVars, streamVars, nodeVars, tx_stream, spawned, streamsMade>>

\* The test calls inject_pending_stream itself.
CallInjectPendingStream ==
    /\ h_pc = "idle"
    /\ calls < MaxCalls
    /\ call' = [op |-> "inject_pending_stream", length |-> 0]
    /\ h_pc' = "l107"
    /\ chain' = <<>>
    /\ idx' = 0
    /\ log' = <<>>
    /\ ret' = <<>>
    /\ cur' = NoCur
    /\ calls' = calls + 1
    /\ UNCHANGED <<scenarioVars, checkpointVars, pollVars, streamVars, nodeVars, tx_stream, spawned, streamsMade>>

\* set_tx_generator: a new stream over the given generator goes in the slot.
SetTxGenerator ==
    /\ h_pc = "idle"
    /\ calls < MaxCalls
    /\ tx_stream' = <<streamsMade + 1>>
    /\ streamsMade' = streamsMade + 1
    /\ calls' = calls + 1
    /\ UNCHANGED <<scenarioVars, checkpointVars, pollVars, streamVars, nodeVars, h_pc, call, idx, chain, cur, ret,
                   spawned, log>>

InjectPendingStreamJoins ==
    /\ h_pc = "l107"
    /\ tx_stream # <<>>
    /\ spawned' = Append(spawned, tx_stream[1])
    /\ tx_stream' = <<>>
    /\ log' = Append(log, Entry("inject_pending_stream", "ok", 0, 0, <<>>))
    /\ h_pc' = "joining"
    /\ UNCHANGED <<scenarioVars, checkpointVars, pollVars, streamVars, nodeVars, call, idx, chain, cur, ret,
                   streamsMade, calls>>

InjectPendingStreamKeeps ==
    /\ h_pc = "l107"
    /\ tx_stream # <<>>
    /\ spawned' = Append(spawned, tx_stream[1])
    /\ tx_stream' = tx_stream
    /\ log' = Append(log, Entry("inject_pending_stream", "ok", 0, 0, <<>>))
    /\ h_pc' = IF call.op = "advance_many" THEN "l109" ELSE "returned"
    /\ UNCHANGED <<scenarioVars, checkpointVars, pollVars, streamVars, nodeVars, call, idx, chain, cur, ret,
                   streamsMade, calls>>

\* inject_pending_stream: take the stream out of the slot (a panic when the
\* slot is empty) and hand it to rpc.inject_stream, which spawns the task.
InjectPendingStream ==
    /\ h_pc = "l107"
    /\ IF tx_stream = <<>>
       THEN /\ h_pc' = "panic"
            /\ log' = Append(log, Entry("inject_pending_stream", "panic", 0, 0, <<>>))
            /\ UNCHANGED <<tx_stream, spawned>>
       ELSE /\ spawned' = Append(spawned, tx_stream[1])
            /\ tx_stream' = <<>>
            /\ log' = Append(log, Entry("inject_pending_stream", "ok", 0, 0, <<>>))
            /\ h_pc' = IF call.op = "advance_many" THEN "l109" ELSE "returned"
    /\ UNCHANGED <<scenarioVars, checkpointVars, pollVars, streamVars, nodeVars, call, idx, chain, cur, ret,
                   streamsMade, calls>>

LoopContinuesInclusive(i, length) == i <= length

\* for _ in 0..length
LoopContinues(i, length) == i < length

\* advance_many, lines 109 and 113: the next iteration calls advance, or
\* the loop is over and Ok(chain) is returned.
LoopHead ==
    /\ h_pc = "l109"
    /\ IF LoopContinues(idx, call.length)
       THEN /\ h_pc' = "l169"
            /\ cur' = NoCur
            /\ ret' = <<>>
       ELSE /\ h_pc' = "returned"
            /\ ret' = <<[res |-> "ok", chain |-> chain]>>
            /\ cur' = cur
    /\ UNCHANGED <<scenarioVars, checkpointVars, pollVars, streamVars, nodeVars, tx_stream, call, idx, chain, spawned,
                   streamsMade, calls, log>>

\* new_payload, line 169: payload.new_payload bumps the timestamp, calls
\* the attributes generator and hands the attributes to the payload
\* builder; node.rs unwraps the result.
NewPayloadAttributes ==
    /\ h_pc = "l169"
    /\ timestamp < MaxBlocks
    /\ timestamp' = timestamp + 1
    /\ \E ok \in BOOLEAN :
         IF ok
         THEN /\ job' = <<[attr  |-> [timestamp |-> timestamp'],
                           block |-> BuiltBlock(canon, timestamp'),
                           built |-> FALSE]>>
              /\ cur' = [cur EXCEPT !.attr = <<[timestamp |-> timestamp']>>]
              /\ log' = Append(log, Entry("np.new_payload", "ok", timestamp', 0, <<>>))
              /\ h_pc' = "l171"
         ELSE /\ log' = Append(log, Entry("np.new_payload", "panic", timestamp', 0, <<>>))
              /\ h_pc' = "panic"
              /\ UNCHANGED <<job, cur>>
    /\ UNCHANGED <<scenarioVars, checkpointVars, pollVars, streamVars, canon, tree, fcuTarget, tx_stream, call, idx,
                   chain, ret, spawned, streamsMade, calls>>

\* A step of new_payload that either succeeds and goes on to `next`, or
\* fails with `?` (Err) or an assertion (panic), which ends new_payload and
\* advance.
NewPayloadStep(at, op, next, results) ==
    /\ h_pc = at
    /\ \E res \in results :
         /\ log' = IF res = "ok"
                   THEN Append(log, Entry(op, res, cur.attr[1].timestamp, 0, <<>>))
                   ELSE log \o <<Entry(op, res, cur.attr[1].timestamp, 0, <<>>),
                                 Entry("new_payload", res, 0, 0, <<>>)>>
         /\ h_pc' = IF res = "ok" THEN next ELSE Leave(res)
         /\ ret' = IF res = "err" THEN <<[res |-> "err"]>> ELSE ret
    /\ UNCHANGED <<scenarioVars, checkpointVars, pollVars, streamVars, nodeVars, tx_stream, call, idx, chain, cur,
                   spawned, streamsMade, calls>>

ExpectAttrEventSkipsWait ==
    NewPayloadStep("l171", "np.expect_attr_event", "l175", {"ok", "err", "panic"})

\* line 171: the first event is the payload attributes.
ExpectAttrEvent ==
    NewPayloadStep("l171", "np.expect_attr_event", "l173", {"ok", "err", "panic"})

\* line 173: wait for the payload builder to have finished building.
WaitForBuiltPayload ==
    /\ job # <<>>
    /\ job[1].built
    /\ NewPayloadStep("l173", "np.wait_for_built_payload", "l175", {"ok"})

\* line 175: resolve the payload through getPayload.
GetPayload ==
    NewPayloadStep("l175", "np.get_payload", "l177", {"ok", "err"})

\* line 177: the built payload arrives as an event; new_payload returns it
\* with the attributes.
ExpectBuiltPayload ==
    /\ h_pc = "l177"
    /\ \E res \in {"ok", "err"} :
         /\ log' = log \o <<Entry("np.expect_built_payload", res,
                                  cur.attr[1].timestamp, 0, <<>>),
                            Entry("new_payload", res, 0, 0,
                                  IF res = "ok" THEN <<job[1].block>> ELSE <<>>)>>
         /\ h_pc' = IF res = "ok" THEN "l132" ELSE "err"
         /\ cur' = IF res = "ok" THEN [cur EXCEPT !.payload = <<job[1].block>>]
                   ELSE cur
         /\ ret' = IF res = "err" THEN <<[res |-> "err"]>> ELSE ret
    /\ UNCHANGED <<scenarioVars, checkpointVars, pollVars, streamVars, nodeVars, tx_stream, call, idx, chain,
                   spawned, streamsMade, calls>>

\* advance, lines 132-140: engine_api.submit_payload with expected status
\* Valid.  The engine's status decides: the expected one returns the block
\* hash, another one fails the assertion; a transport failure is an Err.
SubmitPayload ==
    /\ h_pc = "l132"
    /\ \E status \in {"Valid", "Invalid", "Syncing", "transport"} :
         LET res == CASE status = "Valid" -> "ok"
                      [] status = "transport" -> "err"
                      [] OTHER -> "panic"
             b == cur.payload[1]
         IN  /\ log' = Append(log, Entry("submit_payload", res, "Valid", b.hash,
                                         IF res = "ok" THEN <<b.hash>> ELSE <<>>))
             /\ tree' = IF status = "Valid" THEN tree \cup {b} ELSE tree
             /\ cur' = IF res = "ok" THEN [cur EXCEPT !.block_hash = <<b.hash>>]
                       ELSE cur
             /\ h_pc' = IF res = "ok" THEN "l143" ELSE Leave(res)
             /\ ret' = IF res = "err" THEN <<[res |-> "err"]>> ELSE ret
    /\ UNCHANGED <<scenarioVars, checkpointVars, pollVars, streamVars, canon, fcuTarget, timestamp, job, tx_stream,
                   call, idx, chain, spawned, streamsMade, calls>>

FcuArgsNoSafe(h) == <<h, 0>>

\* advance, line 143: (head, safe) of update_forkchoice(block_hash, block_hash).
FcuArgs(h) == <<h, h>>

\* advance, line 143: engine_api.update_forkchoice; the engine accepts the
\* head and makes it canonical on its own time.
UpdateForkchoice ==
    /\ h_pc = "l143"
    /\ \E res \in {"ok", "err"} :
         LET args == FcuArgs(cur.block_hash[1])
         IN  /\ log' = Append(log, Entry("update_forkchoice", res, args[1], args[2], <<>>))
             /\ fcuTarget' = IF res = "ok"
                             THEN <<CHOOSE b \in tree : b.hash = args[1]>>
                             ELSE fcuTarget
             /\ h_pc' = IF res = "ok" THEN "l148" ELSE "err"
             /\ ret' = IF res = "err" THEN <<[res |-> "err"]>> ELSE ret
    /\ UNCHANGED <<scenarioVars, checkpointVars, pollVars, streamVars, canon, tree, timestamp, job, tx_stream, call,
                   idx, chain, cur, spawned, streamsMade, calls>>

AnbOutcomeNumberAbove(latest, block_hash, block_number) ==
    IF latest = <<>> THEN "retry"
    ELSE IF latest[1].number > block_number
         THEN IF latest[1].hash = block_hash THEN "ok" ELSE "panic"
         ELSE "retry"

AnbOutcomeBreakOutside(latest, block_hash, block_number) ==
    IF latest = <<>> THEN "retry"
    ELSE IF latest[1].number = block_number
         THEN IF latest[1].hash = block_hash THEN "ok" ELSE "panic"
         ELSE "ok"

AnbOutcomeRetriesOnMismatch(latest, block_hash, block_number) ==
    IF latest = <<>> THEN "retry"
    ELSE IF latest[1].number = block_number /\ latest[1].hash = block_hash
         THEN "ok"
         ELSE "retry"

AnbOutcomeGivesUp(latest, block_hash, block_number) ==
    IF latest = <<>> THEN "retry"
    ELSE IF latest[1].number = block_number
         THEN IF latest[1].hash = block_hash THEN "ok" ELSE "panic"
         ELSE "err"

\* assert_new_block, lines 242-251: what one iteration of the loop does
\* with the latest block it read.
AnbOutcome(latest, block_hash, block_number) ==
    IF latest = <<>> THEN "retry"
    ELSE IF latest[1].number = block_number
         THEN IF latest[1].hash = block_hash THEN "ok" ELSE "panic"
         ELSE "retry"

\* advance, lines 146-150: assert_new_block(payload.block().hash(),
\* payload.block().number), one iteration of its loop per step: the sleep,
\* the read of the latest block (`?`), the comparison.  When the loop
\* breaks advance returns Ok((payload, eth_attr, block_hash)).
AdvanceAssertNewBlock ==
    /\ h_pc = "l148"
    /\ \E read \in {"ok", "err"} :
         LET b == cur.payload[1]
             res == IF read = "err" THEN "err"
                    ELSE AnbOutcome(LatestBlock(canon), b.hash, b.number)
             out == <<b, cur.attr[1], b.hash>>
         IN  CASE res = "retry" ->
                    UNCHANGED <<h_pc, log, ret>>
               [] res = "ok" ->
                    /\ log' = log \o <<Entry("assert_new_block", "ok", b.hash, b.number, <<>>),
                                       Entry("advance", "ok", 0, 0, out)>>
                    /\ ret' = <<[res |-> "ok", payload |-> out[1], attr |-> out[2],
                                 hash |-> out[3]]>>
                    /\ h_pc' = IF call.op = "advance_many" THEN "l111" ELSE "returned"
               [] OTHER ->
                    /\ log' = Append(log, Entry("assert_new_block", res, b.hash, b.number, <<>>))
                    /\ ret' = IF res = "err" THEN <<[res |-> "err"]>> ELSE ret
                    /\ h_pc' = Leave(res)
    /\ UNCHANGED <<scenarioVars, checkpointVars, pollVars, streamVars, nodeVars, tx_stream, call, idx, chain, cur,
                   spawned, streamsMade, calls>>

\* advance_many, lines 110-111: chain.push((payload, attr)).
ChainPush ==
    /\ h_pc = "l111"
    /\ chain' = Append(chain, <<ret[1].payload, ret[1].attr>>)
    /\ idx' = idx + 1
    /\ h_pc' = "l109"
    /\ UNCHANGED <<scenarioVars, checkpointVars, pollVars, streamVars, nodeVars, tx_stream, call, cur, ret, spawned,
                   streamsMade, calls, log>>

\* The call returned Ok or Err to the test, which goes on.
Return ==
    /\ h_pc \in {"returned", "err"}
    /\ h_pc' = "idle"
    /\ UNCHANGED <<scenarioVars, checkpointVars, pollVars, streamVars, nodeVars, tx_stream, call, idx, chain, cur, ret,
                   spawned, streamsMade, calls, log>>

NextAdvance ==
    \/ CallAdvanceMany
    \/ CallAdvance
    \/ CallInjectPendingStream
    \/ SetTxGenerator
    \/ InjectPendingStream
    \/ LoopHead
    \/ NewPayloadAttributes
    \/ ExpectAttrEvent
    \/ WaitForBuiltPayload
    \/ GetPayload
    \/ ExpectBuiltPayload
    \/ SubmitPayload
    \/ UpdateForkchoice
    \/ AdvanceAssertNewBlock
    \/ ChainPush
    \/ Return
    \/ PayloadBuilt
    \/ NodeCommit

\* One NodeTestContext driven by a test, and its node.
SpecAdvance == Init /\ [][NextAdvance]_vars

\* ------------------------------------------------- the polling loops

\* Block hashes a node under watch may hold.
Hashes == {1, 2}

\* The node, seen from a polling loop, moves on its own: the canonical
\* chain grows or is unwound, and the pipeline writes its stage
\* checkpoints (the harness never writes them).
NodeExtend ==
    /\ Len(canon) < MaxHeight
    /\ \E h \in Hashes : canon' = Append(canon, h)
    /\ UNCHANGED <<scenarioVars, streamVars, harnessVars, tree, fcuTarget, timestamp, job,
                   checkpointVars, pollVars>>

NodeUnwind ==
    /\ canon # <<>>
    /\ canon' = SubSeq(canon, 1, Len(canon) - 1)
    /\ UNCHANGED <<scenarioVars, streamVars, harnessVars, tree, fcuTarget, timestamp, job,
                   checkpointVars, pollVars>>

StageCheckpoint ==
    /\ \E n \in 0..MaxHeight :
         \/ finish_cp' = <<n>> /\ UNCHANGED headers_cp
         \/ headers_cp' = <<n>> /\ UNCHANGED finish_cp
    /\ UNCHANGED <<scenarioVars, streamVars, harnessVars, nodeVars, pollVars>>

\* The test calls one of the polling loops.
CallPoll ==
    /\ p_pc = "idle"
    /\ \E op \in {"assert_new_block", "wait_until_block_is_available", "wait_unwind"},
          n \in 0..MaxHeight, h \in Hashes :
         p_call' = [op |-> op, number |-> n, hash |-> h]
    /\ p_pc' = "sleep"
    /\ p_obs' = NoObs
    /\ UNCHANGED <<scenarioVars, streamVars, harnessVars, nodeVars, checkpointVars>>

\* tokio::time::sleep at the top of each loop (lines 188, 216, 241).
PollSleep ==
    /\ p_pc = "sleep"
    /\ p_pc' = "read"
    /\ p_obs' = [NoObs EXCEPT !.retried = p_obs.retried]
    /\ UNCHANGED <<scenarioVars, streamVars, harnessVars, nodeVars, checkpointVars, p_call>>

\* assert_new_block called by a test, lines 242-251: one iteration.
AnbPoll ==
    /\ p_pc = "read"
    /\ p_call.op = "assert_new_block"
    /\ \E read \in {"ok", "err"} :
         LET res == IF read = "err" THEN "err"
                    ELSE AnbOutcome(LatestBlock(canon), p_call.hash, p_call.number)
         IN  /\ p_obs' = [p_obs EXCEPT !.polled = TRUE, !.err = (read = "err"),
                            !.latest = IF read = "ok" THEN LatestBlock(canon) ELSE <<>>,
                            !.retried = @ \/ res = "retry"]
             /\ p_pc' = IF res = "retry" THEN "sleep" ELSE res
    /\ UNCHANGED <<scenarioVars, streamVars, harnessVars, nodeVars, checkpointVars, p_call>>

HasReachedFinishCheckpointAbove(cp, block_number) ==
    IF cp # <<>> THEN cp[1] > block_number ELSE FALSE

HasReachedFinishCheckpointBelow(cp, block_number) ==
    IF cp # <<>> THEN cp[1] <= block_number ELSE FALSE

\* has_reached_finish_checkpoint, lines 208-211.
HasReachedFinishCheckpoint(cp, block_number) ==
    IF cp # <<>> THEN cp[1] >= block_number ELSE FALSE

\* wait_until_block_is_available, line 191: the read of the Finish
\* checkpoint (`?`).
WbaReadCheckpoint ==
    /\ p_pc = "read"
    /\ p_call.op = "wait_until_block_is_available"
    /\ \E read \in {"ok", "err"} :
         IF read = "err"
         THEN /\ p_obs' = [p_obs EXCEPT !.polled = TRUE, !.err = TRUE]
              /\ p_pc' = "err"
         ELSE /\ p_obs' = [p_obs EXCEPT !.polled = TRUE, !.cp = finish_cp,
                             !.retried = @ \/ ~HasReachedFinishCheckpoint(
                                                 finish_cp, p_call.number)]
              /\ p_pc' = IF HasReachedFinishCheckpoint(finish_cp, p_call.number)
                         THEN "read_blk" ELSE "sleep"
    /\ UNCHANGED <<scenarioVars, streamVars, harnessVars, nodeVars, checkpointVars, p_call>>

\* wait_until_block_is_available, lines 193-200: block_by_number(number)
\* (`?`), the assert_eq on its hash, the panic when there is no block.
WbaReadBlock ==
    /\ p_pc = "read_blk"
    /\ \E read \in {"ok", "err"} :
         IF read = "err"
         THEN /\ p_obs' = [p_obs EXCEPT !.err = TRUE]
              /\ p_pc' = "err"
         ELSE LET blk == BlockByNumber(canon, p_call.number)
              IN  /\ p_obs' = [p_obs EXCEPT !.fetched = TRUE, !.blk = blk]
                  /\ p_pc' = IF blk # <<>> /\ blk[1].hash = p_call.hash
                             THEN "ok" ELSE "panic"
    /\ UNCHANGED <<scenarioVars, streamVars, harnessVars, nodeVars, checkpointVars, p_call>>

WaitUnwindDoneAtMost(cp, number) ==
    IF cp # <<>> THEN cp[1] <= number ELSE FALSE

\* wait_unwind, lines 217-221: the test that breaks the loop.
WaitUnwindDone(cp, number) ==
    IF cp # <<>> THEN cp[1] = number ELSE FALSE

\* wait_unwind, lines 217-221: one iteration.
WaitUnwindPoll ==
    /\ p_pc = "read"
    /\ p_call.op = "wait_unwind"
    /\ \E read \in {"ok", "err"} :
         IF read = "err"
         THEN /\ p_obs' = [p_obs EXCEPT !.polled = TRUE, !.err = TRUE]
              /\ p_pc' = "err"
         ELSE /\ p_obs' = [p_obs EXCEPT !.polled = TRUE, !.cp = headers_cp,
                             !.retried = @ \/ ~WaitUnwindDone(headers_cp, p_call.number)]
              /\ p_pc' = IF WaitUnwindDone(headers_cp, p_call.number)
                         THEN "ok" ELSE "sleep"
    /\ UNCHANGED <<scenarioVars, streamVars, harnessVars, nodeVars, checkpointVars, p_call>>

\* The loop returned Ok or Err and the test goes on.
PollReturn ==
    /\ p_pc \in {"ok", "err"}
    /\ p_pc' = "idle"
    /\ UNCHANGED <<scenarioVars, streamVars, harnessVars, nodeVars, checkpointVars, p_call, p_obs>>

NextPoll ==
    \/ NodeExtend
    \/ NodeUnwind
    \/ StageCheckpoint
    \/ CallPoll
    \/ PollSleep
    \/ AnbPoll
    \/ WbaReadCheckpoint
    \/ WbaReadBlock
    \/ WaitUnwindPoll
    \/ PollReturn

\* A test polling a node that moves on its own.
SpecPoll == Init /\ [][NextPoll]_vars

\* The loops run on: after each sleep the next read happens.
FairSpecPoll ==
    /\ SpecPoll
    /\ WF_vars(PollSleep)
    /\ WF_vars(AnbPoll)
    /\ WF_vars(WbaReadCheckpoint)
    /\ WF_vars(WbaReadBlock)
    /\ WF_vars(WaitUnwindPoll)

\* ------------------------- the optimism can_sync test, on its third node

\* p2p.rs:52 and p2p.rs:54.
tip == 90
reorg_depth == 2

\* p2p.rs:53.
tip_index == tip - 1

\* Hashes of the A-chain (the first node's canonical_chain) and of the
\* B-chain (the second node's side_chain) at a height: all distinct.
HashA(k) == k
HashB(k) == tip + k

\* canonical_payload_chain[i].0.block() and side_payload_chain[i].0.block()
\* (p2p.rs:57-60 and 80-82): the A-chain runs 1..tip, the B-chain is built
\* on block tip - reorg_depth of the A-chain.
CanonicalPayloadChain(i) ==
    [number |-> i + 1,
     parent |-> IF i = 0 THEN 0 ELSE HashA(i),
     hash   |-> HashA(i + 1)]

SidePayloadChain(i) ==
    [number |-> tip - reorg_depth + 1 + i,
     parent |-> IF i = 0 THEN HashA(tip - reorg_depth)
                ELSE HashB(tip - reorg_depth + i),
     hash   |-> HashB(tip - reorg_depth + 1 + i)]

\* PayloadStatusEnum values; Invalid carries its validation error.
StatusValid == [status |-> "Valid", validation_error |-> <<>>]
StatusSyncing == [status |-> "Syncing", validation_error |-> <<>>]
StatusInvalidFinalized(n) ==
    [status |-> "Invalid", validation_error |-> <<"PendingBlockIsFinalized", n>>]

TestCallWritesCheckpoint(at, next, op, number, hash) ==
    /\ t_pc = at
    /\ p_pc = "idle"
    /\ p_call' = [op |-> op, number |-> number, hash |-> hash]
    /\ p_pc' = "sleep"
    /\ p_obs' = NoObs
    /\ t_pc' = next
    /\ headers_cp' = <<number>>
    /\ UNCHANGED <<nonReorgVars, streamVars, harnessVars, nodeVars, finish_cp,
                   sync_target, finalized, submits>>

\* A poll loop called at line `at` of the test.
TestCall(at, next, op, number, hash) ==
    /\ t_pc = at
    /\ p_pc = "idle"
    /\ p_call' = [op |-> op, number |-> number, hash |-> hash]
    /\ p_pc' = "sleep"
    /\ p_obs' = NoObs
    /\ t_pc' = next
    /\ UNCHANGED <<nonReorgVars, streamVars, harnessVars, nodeVars, checkpointVars,
                   sync_target, finalized, submits>>

\* `.await?` on a poll loop: Ok goes on to the next line, Err ends the test.
TestResume(at, next) ==
    /\ t_pc = at
    /\ p_pc = "idle"
    /\ t_pc' = IF p_obs.err THEN "err" ELSE next
    /\ UNCHANGED <<nonReorgVars, streamVars, harnessVars, nodeVars, checkpointVars, pollVars,
                   sync_target, finalized, submits>>

\* p2p.rs:75: update_optimistic_forkchoice(canonical_chain[tip_index]).await?
\* The node takes the head as the target of its sync.
TestOptimisticForkchoice ==
    /\ t_pc = "l75"
    /\ \E res \in {"ok", "err"} :
         /\ t_pc' = IF res = "ok" THEN "l76" ELSE "err"
         /\ sync_target' = IF res = "ok" THEN <<tip_index + 1>> ELSE sync_target
    /\ UNCHANGED <<nonReorgVars, streamVars, harnessVars, nodeVars, checkpointVars, pollVars,
                   finalized, submits>>

\* p2p.rs:76.
TestWaitSynced ==
    TestCall("l76", "l76w", "wait_until_block_is_available", tip, HashA(tip_index + 1))

TestSynced == TestResume("l76w", "l85")

\* The node's pipeline stores the blocks up to its sync target in one run
\* or in several (a first block, the blocks up to the later fork point,
\* the rest); the Headers checkpoint follows what is stored.
NodeSyncBlocks ==
    /\ sync_target # <<>>
    /\ Len(canon) < sync_target[1]
    /\ \E k \in {1, tip - reorg_depth, sync_target[1]} :
         /\ k > Len(canon)
         /\ canon' = [i \in 1..k |-> HashA(i)]
         /\ headers_cp' = <<k>>
    /\ UNCHANGED <<streamVars, harnessVars, tree, fcuTarget, timestamp, job,
                   finish_cp, pollVars, scenarioVars>>

\* The pipeline's last stage records, after the blocks are stored, how far
\* it got.
NodeSyncFinish ==
    /\ sync_target # <<>>
    /\ finish_cp # <<Len(canon)>>
    /\ finish_cp' = <<Len(canon)>>
    /\ UNCHANGED <<streamVars, harnessVars, nodeVars, headers_cp, pollVars,
                   scenarioVars>>

\* The engine's answer to newPayload for a block: a block at or below the
\* finalized height that is not the canonical one there is refused as
\* already finalized; a block whose parent the node holds is Valid.
EngineNewPayload(b) ==
    IF /\ finalized # <<>>
       /\ b.number <= finalized[1]
       /\ BlockByNumber(canon, b.number) # <<[number |-> b.number, hash |-> b.hash]>>
    THEN StatusInvalidFinalized(finalized[1])
    ELSE IF /\ BlockByNumber(canon, b.number - 1) # <<>>
            /\ BlockByNumber(canon, b.number - 1)[1].hash = b.parent
         THEN StatusValid
         ELSE StatusSyncing

SubmitOutcomeAnyStatus(reply, expected_status, payload) ==
    IF reply.failed THEN [res |-> "err", hash |-> <<>>]
    ELSE [res |-> "ok", hash |-> <<payload.hash>>]

\* EngineApiTestContext::submit_payload: a transport failure is an Err, a
\* status other than the expected one fails the assertion, the expected
\* status returns the block hash.
SubmitOutcome(reply, expected_status, payload) ==
    IF reply.failed THEN [res |-> "err", hash |-> <<>>]
    ELSE IF reply.status = expected_status
         THEN [res |-> "ok", hash |-> <<payload.hash>>]
         ELSE [res |-> "panic", hash |-> <<>>]

Submission(b, expected, reply) ==
    [payload |-> b, expected |-> expected, reply |-> reply,
     outcome |-> SubmitOutcome(reply, expected, b)]

\* p2p.rs:85-94: submit_payload(side_payload_chain[0], .., Valid, ..)
\* .await.unwrap(): an Err panics as a mismatch does.
TestSubmitSide ==
    /\ t_pc = "l85"
    /\ \E failed \in BOOLEAN :
         LET b == SidePayloadChain(0)
             reply == [failed |-> failed, status |-> EngineNewPayload(b)]
             sub == Submission(b, StatusValid, reply)
         IN  /\ submits' = Append(submits, sub)
             /\ tree' = IF ~failed /\ reply.status = StatusValid
                        THEN tree \cup {b} ELSE tree
             /\ t_pc' = IF sub.outcome.res = "ok" THEN "l97" ELSE "panic"
    /\ UNCHANGED <<nonReorgVars, streamVars, harnessVars, canon, fcuTarget, timestamp, job,
                   checkpointVars, pollVars, sync_target, finalized>>

\* p2p.rs:97: update_forkchoice(side_chain[0], side_chain[0]).await?  The
\* node takes the block as its head and as its finalized block, and leaves
\* the sync it was in.
TestForkchoiceSide ==
    /\ t_pc = "l97"
    /\ \E res \in {"ok", "err"} :
         /\ t_pc' = IF res = "ok" THEN "l100" ELSE "err"
         /\ fcuTarget' = IF res = "ok"
                         THEN <<CHOOSE b \in tree : b.hash = SidePayloadChain(0).hash>>
                         ELSE fcuTarget
         /\ sync_target' = IF res = "ok" THEN <<>> ELSE sync_target
    /\ UNCHANGED <<nonReorgVars, streamVars, harnessVars, canon, tree, timestamp, job,
                   checkpointVars, pollVars, finalized, submits>>

\* The reorg, first half: the pipeline unwinds to the parent of the new
\* head; blocks above it are gone and the checkpoints are back at it.
NodeReorgUnwind ==
    /\ fcuTarget # <<>>
    /\ Len(canon) >= fcuTarget[1].number
    /\ canon' = SubSeq(canon, 1, fcuTarget[1].number - 1)
    /\ finish_cp' = <<fcuTarget[1].number - 1>>
    /\ headers_cp' = <<fcuTarget[1].number - 1>>
    /\ UNCHANGED <<streamVars, harnessVars, tree, fcuTarget, timestamp, job,
                   pollVars, scenarioVars>>

\* The reorg, second half: the new head is made canonical and finalized,
\* and the checkpoints follow it.
NodeReorgExtend ==
    /\ fcuTarget # <<>>
    /\ Len(canon) = fcuTarget[1].number - 1
    /\ LatestBlock(canon)[1].hash = fcuTarget[1].parent
    /\ canon' = Append(canon, fcuTarget[1].hash)
    /\ finish_cp' = <<fcuTarget[1].number>>
    /\ headers_cp' = <<fcuTarget[1].number>>
    /\ finalized' = <<fcuTarget[1].number>>
    /\ fcuTarget' = <<>>
    /\ UNCHANGED <<nonReorgVars, streamVars, harnessVars, tree, timestamp, job, pollVars,
                   t_pc, sync_target, submits>>

\* p2p.rs:100.
TestWaitUnwind ==
    TestCall("l100", "l100w", "wait_unwind", tip - reorg_depth, 0)

TestUnwound == TestResume("l100w", "l101")

\* p2p.rs:101-106.
TestWaitSide ==
    TestCall("l101", "l101w", "wait_until_block_is_available",
             SidePayloadChain(0).number, SidePayloadChain(0).hash)

TestSideAvailable == TestResume("l101w", "l110")

ResubmitIndexForkPoint == tip_index - reorg_depth

\* p2p.rs:113-114: the index of the A-chain payload submitted again.
ResubmitIndex == tip_index - reorg_depth + 1

\* p2p.rs:110-123: submit_payload(canonical_payload_chain[..], ..,
\* Invalid { PendingBlockIsFinalized { last_finalized } }, ..); the result
\* is dropped (`let _ =`), a failed assertion still aborts.
TestResubmit ==
    /\ t_pc = "l110"
    /\ \E failed \in BOOLEAN :
         LET b == CanonicalPayloadChain(ResubmitIndex)
             reply == [failed |-> failed, status |-> EngineNewPayload(b)]
             sub == Submission(b, StatusInvalidFinalized(tip - reorg_depth + 1), reply)
         IN  /\ submits' = Append(submits, sub)
             /\ tree' = IF ~failed /\ reply.status = StatusValid
                        THEN tree \cup {b} ELSE tree
             /\ t_pc' = IF sub.outcome.res = "panic" THEN "panic" ELSE "done"
    /\ UNCHANGED <<nonReorgVars, streamVars, harnessVars, canon, fcuTarget, timestamp, job,
                   checkpointVars, pollVars, sync_target, finalized>>

NextReorg ==
    \/ TestOptimisticForkchoice
    \/ TestWaitSynced
    \/ TestSynced
    \/ TestSubmitSide
    \/ TestForkchoiceSide
    \/ TestWaitUnwind
    \/ TestUnwound
    \/ TestWaitSide
    \/ TestSideAvailable
    \/ TestResubmit
    \/ NodeSyncBlocks
    \/ NodeSyncFinish
    \/ NodeReorgUnwind
    \/ NodeReorgExtend
    \/ PollSleep
    \/ WbaReadCheckpoint
    \/ WbaReadBlock
    \/ WaitUnwindPoll
    \/ PollReturn

\* The third node of the optimism can_sync test and the test driving it.
SpecReorg == Init /\ [][NextReorg]_vars

\* The test runs on, the loops run on, and the node finishes what it began.
FairSpecReorg ==
    /\ SpecReorg
    /\ WF_vars(TestWaitSynced) /\ WF_vars(TestSynced)
    /\ WF_vars(TestWaitUnwind) /\ WF_vars(TestUnwound)
    /\ WF_vars(TestWaitSide) /\ WF_vars(TestSideAvailable)
    /\ WF_vars(NodeSyncBlocks) /\ WF_vars(NodeSyncFinish)
    /\ WF_vars(NodeReorgUnwind) /\ WF_vars(NodeReorgExtend)
    /\ WF_vars(PollSleep) /\ WF_vars(PollReturn)
    /\ WF_vars(WbaReadCheckpoint) /\ WF_vars(WbaReadBlock)
    /\ WF_vars(WaitUnwindPoll)

\* ------------------------------------------------- TestNetworkBuilder

\* TestNetworkBuilder::new(peers, ..): Vec::with_capacity(peers), no
\* generator.
BuilderNew ==
    /\ b_pc = "start"
    /\ \E peers \in 0..MaxPeers : capacity' = peers
    /\ tx_generator' = <<>>
    /\ network' = <<>>
    /\ b_pc' = "new"
    /\ UNCHANGED <<outsideNet, node_index, node, connects, b_ret>>

\* TestNetworkBuilder::set_tx_generator.
BuilderSetTxGenerator ==
    /\ b_pc = "new"
    /\ tx_generator = <<>>
    /\ \E g \in 1..MaxGenerators : tx_generator' = <<g>>
    /\ UNCHANGED <<outsideNet, b_pc, capacity, node_index, network, node,
                   connects, b_ret>>

\* build, line 80.
Build ==
    /\ b_pc = "new"
    /\ node_index' = 0
    /\ b_pc' = "l81"
    /\ UNCHANGED <<outsideNet, capacity, tx_generator, network, node, connects,
                   b_ret>>

\* build, lines 81 and 95: the next iteration, or Ok(self.network).
BuildLoop ==
    /\ b_pc = "l81"
    /\ IF node_index < capacity
       THEN b_pc' = "l86" /\ UNCHANGED b_ret
       ELSE b_pc' = "returned" /\ b_ret' = <<[res |-> "ok", network |-> network]>>
    /\ UNCHANGED <<outsideNet, capacity, tx_generator, node_index, network, node,
                   connects>>

NetworkArgsDiscovery == [disable_discovery |-> FALSE]

\* TestNodeGenerator::gen, lines 154-157.
NetworkArgs == [disable_discovery |-> TRUE]

\* TestNodeGenerator::gen, lines 153-181: the node is launched with these
\* network arguments; NodeTestContext::new gives it the default stream;
\* the generator's own tx_generator is None (line 131).  Generator 0 is
\* the default wallet.eip1559() closure, 1.. are the test's generators.
GenNode(id) ==
    [id |-> id,
     disable_discovery |-> NetworkArgs.disable_discovery,
     tx_stream |-> <<[generator |-> 0]>>]

\* build, line 86: self.node_generator.gen().await?
BuildGen ==
    /\ b_pc = "l86"
    /\ \E ok \in BOOLEAN :
         IF ok
         THEN /\ node' = <<GenNode(node_index)>>
              /\ b_pc' = "l87"
              /\ UNCHANGED b_ret
         ELSE /\ b_ret' = <<[res |-> "err"]>>
              /\ b_pc' = "returned"
              /\ UNCHANGED node
    /\ UNCHANGED <<outsideNet, capacity, tx_generator, node_index, network,
                   connects>>

InstallTxGeneratorNever(tx_gen, n) == n

\* build, lines 87-89, with NodeTestContext::set_tx_generator.
InstallTxGenerator(tx_gen, n) ==
    IF tx_gen # <<>>
    THEN [n EXCEPT !.tx_stream = <<[generator |-> tx_gen[1]]>>]
    ELSE n

BuildSetTxGenerator ==
    /\ b_pc = "l87"
    /\ node' = <<InstallTxGenerator(tx_generator, node[1])>>
    /\ b_pc' = "l101"
    /\ UNCHANGED <<outsideNet, capacity, tx_generator, node_index, network,
                   connects, b_ret>>

PreviousNodeNone(net) == <<>>

\* connect_nodes, line 101: self.network.last_mut().
PreviousNode(net) == IF net # <<>> THEN <<net[Len(net)]>> ELSE <<>>

\* connect_nodes, lines 101-103: the previous node connects to the new one.
ConnectPrevious ==
    /\ b_pc = "l101"
    /\ connects' = IF PreviousNode(network) # <<>>
                   THEN Append(connects, <<PreviousNode(network)[1].id, node[1].id>>)
                   ELSE connects
    /\ b_pc' = "l106"
    /\ UNCHANGED <<outsideNet, capacity, tx_generator, node_index, network, node,
                   b_ret>>

ClosesRingFromTwo(index, cap) == index + 1 = cap /\ cap >= 2

\* connect_nodes, line 106.
ClosesRing(index, cap) == index + 1 = cap /\ cap > 2

\* connect_nodes, lines 106-110: the last node connects to the first.
ConnectFirst ==
    /\ b_pc = "l106"
    /\ connects' = IF ClosesRing(node_index, capacity) /\ network # <<>>
                   THEN Append(connects, <<node[1].id, network[1].id>>)
                   ELSE connects
    /\ b_pc' = "l93"
    /\ UNCHANGED <<outsideNet, capacity, tx_generator, node_index, network, node,
                   b_ret>>

\* build, line 93.
BuildPush ==
    /\ b_pc = "l93"
    /\ network' = Append(network, node[1])
    /\ node' = <<>>
    /\ node_index' = node_index + 1
    /\ b_pc' = "l81"
    /\ UNCHANGED <<outsideNet, capacity, tx_generator, connects, b_ret>>

NextNet ==
    \/ BuilderNew
    \/ BuilderSetTxGenerator
    \/ Build
    \/ BuildLoop
    \/ BuildGen
    \/ BuildSetTxGenerator
    \/ ConnectPrevious
    \/ ConnectFirst
    \/ BuildPush

\* A test building a network.
SpecNet == Init /\ [][NextNet]_vars

\* build returned Ok(self.network).
BuildReturnedOk == b_pc = "returned" /\ b_ret = <<[res |-> "ok", network |-> network]>>

\* The connect calls made, as a set.
ConnectSet == {connects[i] : i \in 1..Len(connects)}

\* --------------------------------------- tests over the built network

\* The block the producing node builds first: number 1 on genesis.
BlockOne == [number |-> 1, parent |-> 0, hash |-> 1]

\* ethereum p2p.rs:24-27: a network of 2; first_node is popped first (the
\* last node built), second_node is the other; line 36 sends it a
\* fork-choice update.
CanSyncRoles ==
    /\ s_pc = "start"
    /\ BuildReturnedOk
    /\ Len(network) = 2
    /\ roles' = [producer |-> network[Len(network)].id,
                 observer |-> network[Len(network) - 1].id,
                 fcu |-> TRUE]
    /\ heads' = [i \in 0..(capacity - 1) |-> <<>>]
    /\ engine_calls' = [i \in 0..(capacity - 1) |-> {}]
    /\ s_pc' = "l33"
    /\ UNCHANGED outsideSync

\* The ring scenario: a network of 3 or more, a block produced on node 0,
\* node 2 watched, no engine-API call made to it.
RingRoles ==
    /\ s_pc = "start"
    /\ BuildReturnedOk
    /\ Len(network) >= 3
    /\ roles' = [producer |-> network[1].id, observer |-> network[3].id,
                 fcu |-> FALSE]
    /\ heads' = [i \in 0..(capacity - 1) |-> <<>>]
    /\ engine_calls' = [i \in 0..(capacity - 1) |-> {}]
    /\ s_pc' = "l33"
    /\ UNCHANGED outsideSync

\* p2p.rs:30-33: first_node.advance(..).await?  When it returns Ok the
\* payload was submitted and fork-choice updated on that node only, and
\* its latest block is the block built.
ProducerAdvance ==
    /\ s_pc = "l33"
    /\ \E res \in {"ok", "err"} :
         IF res = "ok"
         THEN /\ heads' = [heads EXCEPT ![roles.producer] = <<BlockOne.hash>>]
              /\ engine_calls' = [engine_calls EXCEPT ![roles.producer] =
                                    {"new_payload", "forkchoice_updated"}]
              /\ s_pc' = IF roles.fcu THEN "l36" ELSE "l39"
         ELSE /\ s_pc' = "err"
              /\ UNCHANGED <<heads, engine_calls>>
    /\ UNCHANGED <<outsideSync, roles>>

\* p2p.rs:36: second_node.engine_api.update_forkchoice(block_hash,
\* block_hash).await?
ObserverForkchoice ==
    /\ s_pc = "l36"
    /\ \E res \in {"ok", "err"} :
         /\ engine_calls' = [engine_calls EXCEPT ![roles.observer] =
                               @ \cup {"forkchoice_updated"}]
         /\ s_pc' = IF res = "ok" THEN "l39" ELSE "err"
    /\ UNCHANGED <<outsideSync, roles, heads>>

\* Peer relay: a node takes over the longer chain of a node it is
\* connected to, in either direction of the connect call.
PeerRelay ==
    /\ s_pc # "start"
    /\ \E e \in ConnectSet :
         \E from \in {e[1], e[2]} :
           LET to == IF from = e[1] THEN e[2] ELSE e[1]
           IN  /\ Len(heads[from]) > Len(heads[to])
               /\ heads' = [heads EXCEPT ![to] = heads[from]]
    /\ UNCHANGED <<outsideSync, s_pc, roles, engine_calls>>

\* p2p.rs:39: second_node.assert_new_block(block_hash, 1): the sleep of
\* one iteration (node.rs:241).
ObserverSleep ==
    /\ s_pc = "l39"
    /\ s_pc' = "l39r"
    /\ UNCHANGED <<outsideSync, roles, heads, engine_calls>>

\* p2p.rs:39: the rest of the iteration (node.rs:242-251), `.await?`.
ObserverRead ==
    /\ s_pc = "l39r"
    /\ \E read \in {"ok", "err"} :
         LET res == IF read = "err" THEN "err"
                    ELSE AnbOutcome(LatestBlock(heads[roles.observer]),
                                    BlockOne.hash, 1)
         IN  s_pc' = CASE res = "retry" -> "l39"
                       [] res = "ok" -> "done"
                       [] OTHER -> res
    /\ UNCHANGED <<outsideSync, roles, heads, engine_calls>>

NextSync ==
    \/ NextNet
    \/ CanSyncRoles
    \/ RingRoles
    \/ ProducerAdvance
    \/ ObserverForkchoice
    \/ PeerRelay
    \/ ObserverSleep
    \/ ObserverRead

\* A network is built and a test has one node produce a block and watches
\* another.
SpecSync == Init /\ [][NextSync]_vars

\* The test and its loop run on; the nodes relay what they hold.
FairSpecSync ==
    /\ SpecSync
    /\ WF_vars(PeerRelay)
    /\ WF_vars(ObserverSleep)
    /\ WF_vars(ObserverRead)


\* ------------------------------ advance next to the injection task

\* The background task inject_stream spawned (rpc.rs:31) takes a step; it
\* is followed until its first send has completed.
InjectionTaskStep ==
    /\ spawned # <<>>
    /\ sends = <<>> \/ pc = "sending"
    /\ NextStream

\* The test makes its first call on the context, and the call runs.
FirstCallStep ==
    /\ calls = 0 \/ h_pc # "idle"
    /\ NextAdvance

NextDecoupled ==
    \/ FirstCallStep
    \/ InjectionTaskStep

\* The test drives one node context while the injection task it spawned
\* runs, stalls or fails at its own pace.
SpecDecoupled == Init /\ [][NextDecoupled]_vars

\* A call in progress takes its next step, and the node its own.
CallRuns ==
    /\ h_pc # "idle"
    /\ NextAdvance

\* The call and the node run on; nothing is assumed of the injection task.
FairSpecDecoupled == SpecDecoupled /\ WF_vars(CallRuns)

\* ---------------------------------------------------- can_replay_blocks

\* blocks.rs:40-43: the test's first node runs advance_many(last_block, ..)
\* and whatever the harness does inside it.
ReplayAdvanceMany ==
    /\ r_pc = "l43"
    /\ NextAdvance

ConvertToPayloadV3ParentIsSelf(block) ==
    [parent_hash |-> block.hash, block_number |-> block.number,
     block_hash |-> block.hash]

\* BlockTestContext::convert_to_payload_v3, lines 117-141: the fields of
\* the header the engine links blocks by.
ConvertToPayloadV3(block) ==
    [parent_hash |-> block.parent, block_number |-> block.number,
     block_hash |-> block.hash]

\* blocks.rs:43-55: `.unwrap()` on advance_many's result, the blocks and
\* attributes of the chain, last_block_hash = blocks.last().unwrap(), the
\* blocks written to a file and read back (`?`), the payloads made of them.
ReplayCollect ==
    /\ r_pc = "l43"
    /\ calls = 1
    /\ call.op = "advance_many"
    /\ h_pc \in {"returned", "err"}
    /\ IF h_pc = "err" \/ chain = <<>>
       THEN /\ r_pc' = "panic"
            /\ UNCHANGED <<blocks, attrs, payloads>>
       ELSE \E file \in {"ok", "err"} :
              /\ blocks' = [i \in 1..Len(chain) |-> chain[i][1]]
              /\ attrs' = [i \in 1..Len(chain) |-> chain[i][2]]
              /\ IF file = "ok"
                 THEN /\ payloads' = [i \in 1..Len(chain) |->
                                        ConvertToPayloadV3(chain[i][1])]
                      /\ r_pc' = "l58"
                 ELSE /\ r_pc' = "err"
                      /\ UNCHANGED payloads
    /\ UNCHANGED <<outsideReplay, r_i, submission, replica, statuses>>

\* blocks.rs:58: a second node from the same chain spec, `.gen().await?`.
ReplayFreshNode ==
    /\ r_pc = "l58"
    /\ \E res \in {"ok", "err"} :
         r_pc' = IF res = "ok" THEN "l59" ELSE "err"
    /\ replica' = FreshNode
    /\ UNCHANGED <<outsideReplay, blocks, attrs, payloads, r_i, submission,
                   statuses>>

\* The hashes the node knows: genesis and the blocks of its tree.
KnownHashes(n) == {0} \cup {b.block_hash : b \in n.tree}

\* The engine's answer to engine_newPayloadV3: a payload that extends a
\* block the node knows is Valid and is its own latest valid hash; one
\* whose parent is unknown is Syncing, with no latest valid hash.
EngineNewPayloadV3(n, p) ==
    IF p.parent_hash \in KnownHashes(n)
    THEN [status |-> "Valid", latest_valid_hash |-> <<p.block_hash>>]
    ELSE [status |-> "Syncing", latest_valid_hash |-> <<>>]

\* blocks.rs:59-68: the next payload goes to new_payload_v3 (`.await?`);
\* assert_eq!(submission.status, Valid).  After the last one: line 76.
ReplayNewPayload ==
    /\ r_pc = "l59"
    /\ IF r_i = Len(payloads)
       THEN /\ r_pc' = "l76"
            /\ UNCHANGED <<submission, replica, statuses>>
       ELSE \E transport \in {"ok", "err"} :
              LET p == payloads[r_i + 1]
                  answer == EngineNewPayloadV3(replica, p)
              IN  IF transport = "err"
                  THEN /\ r_pc' = "err"
                       /\ UNCHANGED <<submission, replica, statuses>>
                  ELSE /\ submission' = <<answer>>
                       /\ statuses' = Append(statuses, answer.status)
                       /\ replica' = IF answer.status = "Valid"
                                     THEN [replica EXCEPT !.tree = @ \cup {p}]
                                     ELSE replica
                       /\ r_pc' = IF answer.status = "Valid" THEN "l70"
                                  ELSE "panic"
    /\ UNCHANGED <<outsideReplay, blocks, attrs, payloads, r_i>>

\* blocks.rs:70: submission.latest_valid_hash.unwrap_or_default().
LatestHash(sub) ==
    IF sub.latest_valid_hash = <<>> THEN 0 ELSE sub.latest_valid_hash[1]

\* blocks.rs:72: node.engine_api.update_forkchoice(latest_hash,
\* latest_hash).await?, then the next iteration.
ReplayForkchoice ==
    /\ r_pc = "l70"
    /\ \E res \in {"ok", "err"} :
         IF res = "ok"
         THEN /\ replica' = [replica EXCEPT !.target = <<LatestHash(submission[1])>>]
              /\ r_i' = r_i + 1
              /\ r_pc' = "l59"
         ELSE /\ r_pc' = "err"
              /\ UNCHANGED <<replica, r_i>>
    /\ UNCHANGED <<outsideReplay, blocks, attrs, payloads, submission, statuses>>

RECURSIVE AncestorPath(_, _)
\* The hashes from the first block above genesis to the block with hash h,
\* along the parent links of the blocks known.
AncestorPath(known, h) ==
    IF h = 0 \/ ~(\E b \in known : b.block_hash = h) THEN <<>>
    ELSE LET b == CHOOSE x \in known : x.block_hash = h
         IN  Append(AncestorPath(known, b.parent_hash), h)

\* The fresh node makes the head of the fork-choice update it accepted
\* canonical.
ReplicaCommit ==
    /\ replica.target # <<>>
    /\ replica' = [replica EXCEPT
                     !.canon = AncestorPath(replica.tree, replica.target[1]),
                     !.target = <<>>]
    /\ UNCHANGED <<outsideReplay, r_pc, blocks, attrs, payloads, r_i,
                   submission, statuses>>

\* blocks.rs:76: node.assert_new_block(last_block_hash, last_block): the
\* sleep of one iteration (node.rs:241).
ReplaySleep ==
    /\ r_pc = "l76"
    /\ r_pc' = "l76r"
    /\ UNCHANGED <<outsideReplay, blocks, attrs, payloads, r_i, submission,
                   replica, statuses>>

\* blocks.rs:76: the rest of the iteration (node.rs:242-251), `.await?`.
\* last_block is the length given to advance_many at line 43.
ReplayRead ==
    /\ r_pc = "l76r"
    /\ \E read \in {"ok", "err"} :
         LET res == IF read = "err" THEN "err"
                    ELSE AnbOutcome(LatestBlock(replica.canon),
                                    blocks[Len(blocks)].hash, call.length)
         IN  r_pc' = CASE res = "retry" -> "l76"
                       [] res = "ok" -> "done"
                       [] OTHER -> res
    /\ UNCHANGED <<outsideReplay, blocks, attrs, payloads, r_i, submission,
                   replica, statuses>>

NextReplay ==
    \/ ReplayAdvanceMany
    \/ ReplayCollect
    \/ ReplayFreshNode
    \/ ReplayNewPayload
    \/ ReplayForkchoice
    \/ ReplicaCommit
    \/ ReplaySleep
    \/ ReplayRead

\* A chain is produced on one node and replayed on a fresh one.
SpecReplay == Init /\ [][NextReplay]_vars

\* The loop of assert_new_block runs on; the fresh node commits the
\* fork-choice updates it accepted.
FairSpecReplay ==
    /\ SpecReplay
    /\ WF_vars(ReplicaCommit)
    /\ WF_vars(ReplaySleep)
    /\ WF_vars(ReplayRead)


\* ------------------------------------------- callers of submit_payload

\* The statuses a caller expects and the engine answers with.
SubmitStatuses ==
    {StatusValid, StatusSyncing,
     StatusInvalidFinalized(1), StatusInvalidFinalized(2)}

\* The payloads submitted: block 1 on genesis, block 2 on block 1.
SubmitPayloads == {BuiltBlock(<<>>, 1), BuiltBlock(<<1>>, 2)}

\* How the callers take the result: `.await?` (node.rs:140),
\* `.await.unwrap()` (optimism p2p.rs:93-94), `let _ =` (p2p.rs:110).
ResultTaken == {"?", "unwrap", "let _"}

\* Where the caller is after the call.
CallerAfter(taken, res) ==
    CASE res = "panic" -> "panic"
      [] res = "err" -> IF taken = "?" THEN "err"
                        ELSE IF taken = "unwrap" THEN "panic" ELSE "run"
      [] OTHER -> "run"

\* A caller submits a payload with an expected status; the engine answers
\* with any status, or the transport fails.
SubmitCall ==
    /\ u_pc = "run"
    /\ \E b \in SubmitPayloads, expected \in SubmitStatuses,
          taken \in ResultTaken, failed \in BOOLEAN, status \in SubmitStatuses :
         LET reply == [failed |-> failed,
                       status |-> IF failed THEN StatusSyncing ELSE status]
             sub == Submission(b, expected, reply)
         IN  /\ u_last' = <<[sub |-> sub, taken |-> taken]>>
             /\ u_pc' = CallerAfter(taken, sub.outcome.res)
    /\ UNCHANGED outsideSubmit

NextSubmit ==
    \/ SubmitCall

\* Payloads are submitted one after another with every expectation and
\* every answer.
SpecSubmit == Init /\ [][NextSubmit]_vars

\* ------------------------------------------------------------- claims

\* The items the stream has returned from poll_next, in order.
Emitted == SelectSeq(produced, LAMBDA x : x.src = "stream")

InFlight == Len(pending_future) + Len(other)

\* C1 (as claimed): the stream never has emitted more items than interval
\* ticks have fired, the immediate first tick included.
C1_EmittedAtMostTicks == Len(Emitted) <= ticksFired

\* C2, state part: generator invocations minus emitted items is 0 or 1, it
\* is 1 exactly when the slot is full, and the k-th emitted item is the
\* item of the k-th task started.
C2_Inv ==
    /\ started = Len(Emitted) + Len(pending_future)
    /\ Len(pending_future) <= 1
    /\ \A k \in 1..Len(Emitted) : Emitted[k].id = k

\* C2, step part: the generator is invoked only on an empty slot, and the
\* slot is cleared exactly in the step that emits its result.
C2_Step ==
    /\ started' # started =>
          /\ pending_future = <<>>
          /\ started' = started + 1
          /\ pending_future' = <<NewTask(started')>>
    /\ (pending_future # <<>> /\ pending_future' = <<>>)
          <=> (Len(Emitted') = Len(Emitted) + 1)
    /\ Len(Emitted') # Len(Emitted) =>
          Emitted' = Append(Emitted, Tx("stream", [pending_future[1] EXCEPT
                                                     !.n = Emitted'[Len(Emitted')].nonce]))

\* C2: at most one generation task is in flight in every reachable state of
\* a TransactionStream, the generator runs only when the slot is empty, the
\* slot is cleared exactly on emission, and items leave in start order.
C2_AtMostOneInFlight == []C2_Inv /\ [][C2_Step]_vars

\* C2 witness: one item was emitted and the next task is in flight.
C2_Witness == Len(Emitted) >= 1 /\ pending_future # <<>> /\ started = Len(Emitted) + 1

\* C3: with one stream on one wallet, the k-th emitted transaction carries
\* nonce k-1, and with no task in flight the counter equals the number of
\* emitted transactions.
C3_NoncesInEmissionOrder ==
    /\ \A k \in 1..Len(Emitted) : Emitted[k].nonce = k - 1
    /\ pending_future = <<>> => nonce = Len(Emitted)

\* C3 witness: three transactions emitted, nothing in flight, after a tick
\* fired while a generation task was suspended.
C3_Witness ==
    /\ Len(Emitted) = 3
    /\ pending_future = <<>>
    /\ nonce = 3
    /\ ticksFired > 1

\* C4 (as claimed): tasks sharing one wallet's counter get distinct nonces,
\* handed out in increasing order, and with no task in flight the counter
\* equals the number of transactions produced.
C4_SharedNoncesDistinct ==
    /\ \A i, j \in 1..Len(produced) : i < j => produced[i].nonce < produced[j].nonce
    /\ InFlight = 0 => nonce = Len(produced)

\* advance has just returned Ok((payload, attributes, hash)), to advance_many
\* (line 110) or to the test.
AdvanceReturnedOk ==
    \/ h_pc = "l111"
    \/ h_pc = "returned" /\ call.op = "advance" /\ ret # <<>>

\* C5: when advance returns Ok((payload, attributes, hash)), the node's
\* block at payload.block().number has hash `hash`, and `hash` is the hash
\* of the returned payload's block.
C5_AdvancePostcondition ==
    AdvanceReturnedOk =>
        /\ ret[1].res = "ok"
        /\ BlockByNumber(canon, ret[1].payload.number)
              = <<[number |-> ret[1].payload.number, hash |-> ret[1].hash]>>
        /\ ret[1].hash = ret[1].payload.hash

\* C5 witness: advance returned Ok for the second block of the chain.
C5_Witness == AdvanceReturnedOk /\ ret[1].payload.number = 2

AdvanceOrder ==
    <<"new_payload", "submit_payload", "update_forkchoice", "assert_new_block">>

\* The steps advance number k has made, in the order they returned.
StepsOf(k) ==
    SelectSeq(log, LAMBDA e : e.adv = k /\ e.op \in {AdvanceOrder[j] : j \in 1..4})

AdvanceOkEntries(k) ==
    SelectSeq(log, LAMBDA e : e.adv = k /\ e.op = "advance")

\* C6: every advance runs new_payload, submit_payload (expecting Valid),
\* update_forkchoice(h, h) with h the hash submit_payload returned, and
\* assert_new_block, in this order, each after the previous one returned
\* Ok, none skipped or repeated, and returns Ok only after assert_new_block
\* did.
C6_AdvanceStepsInOrder ==
    \A k \in 1..(idx + 1) :
        LET L == StepsOf(k)
        IN  /\ Len(L) <= 4
            /\ \A j \in 1..Len(L) :
                 /\ L[j].op = AdvanceOrder[j]
                 /\ j < Len(L) => L[j].res = "ok"
            /\ Len(L) >= 2 => L[2].a = "Valid"
            /\ Len(L) >= 3 => L[3].a = L[2].out[1] /\ L[3].b = L[2].out[1]
            /\ AdvanceOkEntries(k) # <<>> =>
                 /\ Len(L) = 4
                 /\ L[4].res = "ok"
                 /\ Len(AdvanceOkEntries(k)) = 1
            /\ (k = idx + 1 /\ AdvanceReturnedOk) => AdvanceOkEntries(k) # <<>>

\* C6 witness: the second advance of a call went through its four steps.
C6_Witness ==
    /\ Len(StepsOf(2)) = 4
    /\ StepsOf(2)[4].res = "ok"
    /\ StepsOf(2)[3].a = StepsOf(2)[2].out[1]

Injections == SelectSeq(log, LAMBDA e : e.op = "inject_pending_stream")

PayloadRequests == SelectSeq(log, LAMBDA e : e.op = "np.new_payload")

AdvanceManyReturnedOk ==
    h_pc = "returned" /\ call.op = "advance_many"

\* C7: advance_many(count, g) injects the pending stream once, before the
\* first payload is requested, runs the advances one after another, at most
\* `count` of them, and when it returns Ok the list holds exactly `count`
\* (payload, attributes) pairs, the i-th being the result of the i-th
\* advance, with block numbers going up by one; count = 0 gives the empty
\* list.
C7_AdvanceMany ==
    call.op = "advance_many" =>
        /\ Len(Injections) <= 1
        /\ log # <<>> => log[1].op = "inject_pending_stream"
        /\ PayloadRequests # <<>> => Len(Injections) = 1 /\ log[1].res = "ok"
        /\ Len(PayloadRequests) <= call.length
        /\ \A a, b \in 1..Len(log) : a < b => log[a].adv <= log[b].adv
        /\ \A a \in 1..Len(PayloadRequests) : PayloadRequests[a].adv = a
        /\ Len(chain) = idx
        /\ \A i \in 1..Len(chain) :
             /\ Len(AdvanceOkEntries(i)) = 1
             /\ chain[i] = <<AdvanceOkEntries(i)[1].out[1], AdvanceOkEntries(i)[1].out[2]>>
             /\ i > 1 => chain[i][1].number = chain[i - 1][1].number + 1
        /\ AdvanceManyReturnedOk =>
             /\ ret = <<[res |-> "ok", chain |-> chain]>>
             /\ Len(chain) = call.length
             /\ Len(PayloadRequests) = call.length
             /\ Len(Injections) = 1
             /\ spawned # <<>> /\ tx_stream = <<>>

\* C7 witness: advance_many(2, g) returned Ok with two pairs.
C7_Witness ==
    /\ AdvanceManyReturnedOk
    /\ call.length = 2
    /\ Len(ret[1].chain) = 2
    /\ ret[1].chain[2][1].number = 2

AnbActive == p_call.op = "assert_new_block" /\ p_pc \in {"sleep", "read"}

\* The node reports at height p_call.number a block whose hash is
\* p_call.hash.
ReportsAtNumber ==
    BlockByNumber(canon, p_call.number) =
        <<[number |-> p_call.number, hash |-> p_call.hash]>>

\* The node's latest block has number p_call.number and hash p_call.hash.
LatestIsCalled ==
    LatestBlock(canon) = <<[number |-> p_call.number, hash |-> p_call.hash]>>

\* C8 as stated: a running assert_new_block(hash, number) returns once
\* the node reports, at height number or already above it, a block at
\* number with that hash - for as long as the node keeps reporting it.
C8_ReturnsWhenAtOrAbove == (AnbActive /\ ReportsAtNumber) ~> (~AnbActive \/ ~ReportsAtNumber)

\* C8: a running assert_new_block(hash, number) returns once the node's
\* latest block is the block number with that hash, for as long as it
\* stays the latest block.
C8_ReturnsWhenLatest == (AnbActive /\ LatestIsCalled) ~> (~AnbActive \/ ~LatestIsCalled)

C8_Witness ==
    /\ p_call.op = "assert_new_block"
    /\ p_pc = "ok"
    /\ p_obs.retried
    /\ LatestIsCalled

\* C9: wait_until_block_is_available(number, hash) returns Ok only after
\* an iteration that read a Finish checkpoint at or above number and then
\* fetched the block at number with the expected hash; it fetches no
\* block while the checkpoint is absent or below number; a fetch that
\* finds no block, or a block with another hash, ends in a panic.
C9_WaitUntilBlockIsAvailable ==
    p_call.op = "wait_until_block_is_available" =>
        /\ p_pc = "ok" =>
             /\ p_obs.cp # <<>> /\ p_obs.cp[1] >= p_call.number
             /\ p_obs.fetched
             /\ p_obs.blk = <<[number |-> p_call.number, hash |-> p_call.hash]>>
        /\ (p_pc = "read_blk" \/ p_obs.fetched) =>
             (p_obs.cp # <<>> /\ p_obs.cp[1] >= p_call.number)
        /\ (p_obs.polled /\ ~p_obs.err
              /\ (p_obs.cp = <<>> \/ p_obs.cp[1] < p_call.number)) =>
             (p_pc = "sleep" /\ ~p_obs.fetched)
        /\ (p_obs.fetched /\ p_obs.blk # <<[number |-> p_call.number,
                                            hash |-> p_call.hash]>>) =>
             p_pc = "panic"

C9_Witness ==
    /\ p_call.op = "wait_until_block_is_available"
    /\ p_pc = "ok"
    /\ p_obs.retried
    /\ p_obs.cp[1] > p_call.number

C9_WitnessPanic ==
    /\ p_call.op = "wait_until_block_is_available"
    /\ p_pc = "panic"
    /\ p_obs.blk = <<>>

\* C10: wait_unwind(number) returns Ok only after an iteration that read
\* a Headers checkpoint whose block number equals number; an iteration
\* that reads it absent, below or above number goes back to sleep.
C10_WaitUnwind ==
    p_call.op = "wait_unwind" =>
        /\ p_pc = "ok" => p_obs.cp = <<p_call.number>>
        /\ (p_obs.polled /\ ~p_obs.err /\ p_obs.cp # <<p_call.number>>) =>
             p_pc = "sleep"

C10_Witness ==
    /\ p_call.op = "wait_unwind"
    /\ p_pc = "ok"
    /\ p_obs.retried
    /\ p_call.number > 0

C10_WitnessAbove ==
    /\ p_call.op = "wait_unwind"
    /\ p_pc = "sleep"
    /\ p_obs.polled
    /\ p_obs.cp # <<>>
    /\ p_obs.cp[1] > p_call.number

\* C11: in the reorg scenario, once fork-choice was directed to 89b, the
\* sequence wait_unwind(88), wait_until_block_is_available(89, hash(89b))
\* completes with both calls Ok, however the node's unwind and re-extension
\* fall between the polls (a failed provider read, which ends the test
\* with Err, is let through).
C11_ReorgWaitsComplete == (t_pc = "l100") ~> (t_pc \in {"l110", "err"})

\* C12: after 89b is canonical and finalized, the A-chain block at height
\* 89 submitted to the node is answered Invalid with the error `pending
\* block is finalized`, last_finalized = 89 - which is the status the test
\* expects - and the canonical block at 89 stays 89b.
C12_ResubmitIsFinalized ==
    /\ Len(submits) = 2 =>
         /\ submits[2].payload.hash = HashA(tip - reorg_depth + 1)
         /\ submits[2].payload.number = tip - reorg_depth + 1
         /\ ~submits[2].reply.failed =>
              /\ submits[2].reply.status =
                   StatusInvalidFinalized(tip - reorg_depth + 1)
              /\ submits[2].reply.status # StatusValid
              /\ submits[2].outcome.res = "ok"
    /\ finalized # <<>> =>
         /\ finalized = <<tip - reorg_depth + 1>>
         /\ BlockByNumber(canon, finalized[1]) =
              <<[number |-> finalized[1], hash |-> HashB(finalized[1])]>>

C12_Witness ==
    /\ t_pc = "done"
    /\ ~submits[2].reply.failed
    /\ submits[2].reply.status.status = "Invalid"

\* C13: after update_optimistic_forkchoice(hash of block H) the node's
\* Finish checkpoint reaches H; wait_until_block_is_available(H, hash)
\* then returns (Ok, or Err on a failed provider read), and it does not
\* return Ok before the Finish checkpoint is at H.
C13_OptimisticSync ==
    /\ (sync_target = <<tip>>) ~> (finish_cp = <<tip>>)
    /\ (t_pc = "l76w") ~> (t_pc \in {"l85", "err"})
    /\ [](t_pc = "l76w" /\ p_pc = "ok" =>
            /\ finish_cp # <<>> /\ finish_cp[1] >= tip
            /\ p_obs.cp # <<>> /\ p_obs.cp[1] >= tip
            /\ BlockByNumber(canon, tip) = <<[number |-> tip, hash |-> HashA(tip)]>>)

C13_Witness ==
    /\ t_pc = "l85"
    /\ p_obs.retried
    /\ finish_cp = <<tip>>

RECURSIVE ReachedFrom(_, _)
\* The nodes reached from the nodes S over the connections E, taken in
\* either direction.
ReachedFrom(S, E) ==
    LET more == S \cup {e[2] : e \in {d \in E : d[1] \in S}}
                  \cup {e[1] : e \in {d \in E : d[2] \in S}}
    IN  IF more = S THEN S ELSE ReachedFrom(more, E)

\* C14: after build() succeeds the connect calls made are exactly (node
\* i-1 -> node i) for 1 <= i <= n-1 and, only when n > 2, (node n-1 ->
\* node 0), each made once; no node is connected to itself; and for n >= 1
\* every node is reached from node 0 over the connections.
C14_ChainAndRing ==
    BuildReturnedOk =>
        /\ ConnectSet = {<<i - 1, i>> : i \in 1..(capacity - 1)}
                          \cup (IF capacity > 2 THEN {<<capacity - 1, 0>>} ELSE {})
        /\ Len(connects) = Cardinality(ConnectSet)
        /\ \A e \in ConnectSet : e[1] # e[2]
        /\ capacity = 1 => connects = <<>>
        /\ capacity = 2 => connects = <<<<0, 1>>>>
        /\ capacity >= 1 =>
             ReachedFrom({0}, ConnectSet) = {network[i].id : i \in 1..Len(network)}

C14_Witness == BuildReturnedOk /\ capacity >= 3 /\ <<capacity - 1, 0>> \in ConnectSet

\* C15: build() of a builder made with `peers` = n returns exactly n node
\* contexts in generation order, each generated with discovery disabled
\* and holding a stream: over the builder's generator when one was set,
\* the default one otherwise; when generating a node fails build returns
\* the error and no network.
C15_BuildReturnsNodes ==
    b_pc = "returned" =>
        /\ b_ret # <<>>
        /\ b_ret[1].res = "ok" =>
             /\ Len(b_ret[1].network) = capacity
             /\ \A i \in 1..Len(b_ret[1].network) :
                  LET n == b_ret[1].network[i]
                  IN  /\ n.id = i - 1
                      /\ n.disable_discovery
                      /\ n.tx_stream =
                           <<[generator |-> IF tx_generator = <<>> THEN 0
                                            ELSE tx_generator[1]]>>
        /\ b_ret[1].res # "ok" =>
             /\ b_ret = <<[res |-> "err"]>>
             /\ Len(network) < capacity

C15_Witness ==
    /\ BuildReturnedOk
    /\ capacity >= 2
    /\ tx_generator # <<>>

C15_WitnessErr == b_pc = "returned" /\ b_ret = <<[res |-> "err"]>> /\ network # <<>>

\* The ring scenario runs and the block was produced on node 0.
RingProduced == s_pc # "start" /\ ~roles.fcu /\ heads[roles.producer] # <<>>

\* C16: in a ring of 3 or more nodes, once a block is submitted and
\* fork-choice updated on node 0 only, node 2 eventually reports the head
\* node 0 reports, and the test made no engine-API call to node 2.
C16_RingPropagates ==
    /\ RingProduced ~> (RingProduced /\ heads[2] = heads[0])
    /\ [](RingProduced => engine_calls[2] = {})
    /\ [](RingProduced => roles.producer = 0 /\ roles.observer = 2
                          /\ engine_calls[0] # {})

\* C16 happens: in a ring of 4, where no connect call joins node 0 and
\* node 2, node 2 reports node 0's head without an engine-API call.
C16_Witness ==
    /\ RingProduced
    /\ Len(network) = 4
    /\ ConnectSet \cap {<<0, 2>>, <<2, 0>>} = {}
    /\ heads[2] = heads[0]
    /\ engine_calls[2] = {}
    /\ s_pc = "done"

\* The two-node test runs and the fork-choice update reached the other node.
SyncForkchoiceSent == roles.fcu /\ s_pc \in {"l39", "l39r", "done", "err", "panic"}

\* C17: of two nodes, one advanced to block 1 with hash h and the other sent
\* only update_forkchoice(h, h): the other node eventually reports (1, h)
\* as its latest block, so assert_new_block(h, 1) returns Ok on it (Err
\* when a provider read fails), never a hash mismatch.
C17_TwoNodeSync ==
    /\ (roles.fcu /\ s_pc = "l39") ~> (s_pc \in {"done", "err"})
    /\ (roles.fcu /\ s_pc = "l39")
         ~> (s_pc # "start"
             /\ LatestBlock(heads[roles.observer])
                   = <<[number |-> BlockOne.number, hash |-> BlockOne.hash]>>)
    /\ [](roles.fcu /\ s_pc = "done"
            => /\ LatestBlock(heads[roles.observer])
                    = <<[number |-> BlockOne.number, hash |-> BlockOne.hash]>>
               /\ engine_calls[roles.observer] = {"forkchoice_updated"}
               /\ roles.producer # roles.observer)
    /\ [](roles.fcu => s_pc # "panic")

\* C17 happens: assert_new_block returned Ok on the node that was sent the
\* fork-choice update only.
C17_Witness ==
    /\ roles.fcu
    /\ s_pc = "done"
    /\ engine_calls[roles.observer] = {"forkchoice_updated"}
    /\ heads[roles.observer] = heads[roles.producer]

\* C18: a chain of N blocks produced by advance_many on one node and
\* submitted in order to a fresh node with the same genesis (new payload,
\* then fork-choice update to the reported latest valid hash) gets status
\* Valid for every block, each reported latest valid hash being that
\* block's hash; afterwards the fresh node's latest block has number N and
\* the hash of the original N-th block, so assert_new_block on it returns
\* (Ok, or Err on a failed read) and the two nodes hold the same chain.
C18_ReplayEquivalence ==
    /\ [](\A i \in 1..Len(statuses) : statuses[i] = "Valid")
    /\ [](r_pc = "panic" => payloads = <<>>)
    /\ [](r_pc = "l70" =>
            submission = <<[status |-> "Valid",
                            latest_valid_hash |-> <<blocks[r_i + 1].hash>>]>>)
    /\ [](r_pc = "done" =>
            /\ Len(blocks) = call.length
            /\ Len(statuses) = Len(blocks)
            /\ LatestBlock(replica.canon)
                 = <<[number |-> Len(blocks), hash |-> blocks[Len(blocks)].hash]>>
            /\ replica.canon = canon)
    /\ (r_pc = "l76") ~> (r_pc \in {"done", "err"})

\* C18 happens: two blocks were replayed and the fresh node reports the
\* second one as its latest block.
C18_Witness ==
    /\ r_pc = "done"
    /\ Len(blocks) >= 2
    /\ statuses = [i \in 1..Len(blocks) |-> "Valid"]
    /\ replica.canon = canon

\* C19: submit_payload returns Ok(block hash of the payload) only if the
\* engine answered with the expected status (for Invalid, the same
\* validation error); a different status aborts fatally however the result
\* is taken; a transport failure is an Err, which `?` hands to the caller;
\* an expected Invalid that is received is Ok and the caller goes on.
C19_SubmitPayload ==
    u_last # <<>> =>
      LET sub == u_last[1].sub
          taken == u_last[1].taken
      IN  /\ sub.outcome.res = "ok" =>
                /\ ~sub.reply.failed
                /\ sub.reply.status = sub.expected
                /\ sub.outcome.hash = <<sub.payload.hash>>
                /\ u_pc = "run"
          /\ (~sub.reply.failed /\ sub.reply.status # sub.expected) =>
                sub.outcome.res = "panic" /\ u_pc = "panic"
          /\ sub.reply.failed =>
                /\ sub.outcome.res = "err"
                /\ taken = "?" => u_pc = "err"
          /\ (~sub.reply.failed /\ sub.reply.status = sub.expected) =>
                sub.outcome.res = "ok"

\* C19 happens: Invalid was expected and received, the hash of the payload
\* came back and the caller went on.
C19_Witness ==
    /\ u_last # <<>>
    /\ u_last[1].sub.expected = StatusInvalidFinalized(2)
    /\ u_last[1].sub.reply = [failed |-> FALSE, status |-> StatusInvalidFinalized(2)]
    /\ u_last[1].sub.outcome = [res |-> "ok", hash |-> <<u_last[1].sub.payload.hash>>]
    /\ u_pc = "run"

\* C19, the fatal case happens: Invalid was expected with another
\* validation error than the one received.
C19_WitnessMismatch ==
    /\ u_last # <<>>
    /\ u_last[1].sub.expected = StatusInvalidFinalized(2)
    /\ u_last[1].sub.reply = [failed |-> FALSE, status |-> StatusInvalidFinalized(1)]
    /\ u_last[1].taken = "let _"
    /\ u_pc = "panic"

\* The steps of advance and new_payload that call a collaborator.
CollaboratorSteps ==
    {"np.new_payload", "np.expect_attr_event", "np.wait_for_built_payload",
     "np.get_payload", "np.expect_built_payload", "submit_payload",
     "update_forkchoice", "assert_new_block"}

\* C20: every failure of a collaborator call made inside advance and
\* new_payload reaches the caller of advance as Err, and no later step of
\* that advance runs; the only fatal aborts are a status mismatch (in
\* submit_payload) and a hash mismatch (in assert_new_block).
C20_FailuresReachCallerAsErr ==
    \A i \in 1..Len(log) :
        (log[i].op \in CollaboratorSteps /\ log[i].res # "ok") =>
            /\ log[i].res = "panic" =>
                   log[i].op \in {"submit_payload", "assert_new_block"}
            /\ log[i].res = "err" =>
                   /\ h_pc \in {"err", "idle"}
                   /\ ret = <<[res |-> "err"]>>
            /\ \A j \in (i + 1)..Len(log) :
                   log[j].op \notin CollaboratorSteps

\* The streams of the context that are active: the one in the tx_stream
\* slot and those a background injection task drains (a stream never ends,
\* the task lives until teardown).
ActiveStreams == Len(tx_stream) + Len(spawned)

\* C21: whatever set_tx_generator, inject_pending_stream, advance and
\* advance_many calls were made on one node context, at most one
\* transaction stream of the context is active.
C21_AtMostOneActiveStream == ActiveStreams <= 1

\* The transactions of the sends, in the order the sends started.
SentTxs(s) == [k \in 1..Len(s) |-> s[k].tx]

\* C22, state part: the k-th send started carries the k-th item the stream
\* emitted, which is the item of the k-th generation task.
C22_Inv ==
    /\ SentTxs(sends) = Emitted
    /\ \A k \in 1..Len(sends) : sends[k].tx.id = k

\* C22, step part: a send that starts goes after every send started before.
C22_Step ==
    /\ Len(sends') >= Len(sends)
    /\ SubSeq(SentTxs(sends'), 1, Len(sends)) = SentTxs(sends)

\* C22: the background injection task of one stream sends the transactions
\* in the order the stream emitted them, which is their generation order:
\* the send of item k+1 never starts before the send of item k started.
C22_SendsInEmissionOrder == []C22_Inv /\ [][C22_Step]_vars

\* C22 happens: three sends were started, the first of which failed.
C22_Witness ==
    /\ Len(sends) = 3
    /\ sends[1].done = "err"
    /\ SentTxs(sends) = Emitted

\* Sends started and not completed.
SendsInFlight == Cardinality({k \in 1..Len(sends) : sends[k].done = "no"})

\* C23: every transaction of the stream is sent in a task of its own, so
\* the stream is polled and emits while an earlier send has not completed:
\* while the k-th send is in flight, it completes or the next send starts.
C23_SendsOverlap ==
    \A k \in 1..(MaxTx - 1) :
        (Len(sends) = k /\ sends[k].done = "no")
            ~> (Len(sends) >= k /\ (sends[k].done # "no" \/ Len(sends) > k))

\* C24, step part: inject_pending_stream hands the stream to the spawned
\* task and returns in the same step, no item generated, emitted or sent.
C24_Step ==
    spawned' # spawned =>
        /\ h_pc' \in {"l109", "returned"}
        /\ UNCHANGED <<produced, started, sends, pending_future>>

\* C24: inject_pending_stream returns without waiting for any item, and an
\* advance that has started runs to its end (Ok, or the Err or assertion of
\* one of its own steps) whatever the injection task does: runs, stalls in
\* a generation that never completes, or fails its sends.
C24_AdvanceDecoupled ==
    /\ [][C24_Step]_vars
    /\ (h_pc = "l169" /\ timestamp < MaxBlocks)
          ~> (h_pc \in {"l111", "returned", "err", "panic"})

\* C24 happens: advance returned Ok while the injection task was spawned
\* and its first generation task sat suspended, nothing emitted.
C24_Witness ==
    /\ AdvanceReturnedOk
    /\ ret[1].res = "ok"
    /\ spawned # <<>>
    /\ pending_future # <<>>
    /\ pending_future[1].blocked
    /\ produced = <<>>

\* C24 happens, failing sends: advance returned Ok after the injection
\* task's send had failed.
C24_WitnessFailing ==
    /\ AdvanceReturnedOk
    /\ ret[1].res = "ok"
    /\ sends # <<>>
    /\ sends[1].done = "err"

\* C25: a TransactionStream is infinite.  poll_next never returns
\* Ready(None); and when the consumer keeps polling, every generation task
\* completes (none panics) and the timer keeps firing, another item is
\* emitted after every emission.
C25_StreamIsInfinite ==
    /\ [](poll_ret # <<>> => poll_ret[1].kind \in {"Some", "Pending"})
    /\ [](poll_ret # <<>> /\ poll_ret[1].kind = "Some" => poll_ret[1].item # <<>>)
    /\ \A k \in 0..(MaxTx - 1) :
          (Len(Emitted) = k) ~> (Len(Emitted) > k \/ pc = "panicked")

\* C25 happens: the stream emitted as many items as the model follows,
\* the last one after the counted deadlines had all elapsed.
C25_Witness ==
    /\ Len(Emitted) = MaxTx
    /\ ticksFired = 1 + MaxTicks
    /\ poll_ret = <<ReturnItem(Emitted[MaxTx])>>

\* The consumer is inside a call of poll_next.
InPollNext == pc \in {"l87", "l94", "l96"}

\* C26, step part: a step taken while the consumer is not inside poll_next
\* starts no generation task, runs none, emits nothing and leaves the
\* wallet's counter alone; the generator is called at line 94 only.
C26_Step ==
    /\ ~InPollNext =>
          /\ UNCHANGED <<started, produced, nonce>>
          /\ SentTxs(sends') = SentTxs(sends)
          /\ Len(pending_future') = Len(pending_future)
          /\ pending_future # <<>> =>
                /\ pending_future'[1].at = pending_future[1].at
                /\ pending_future'[1].n = pending_future[1].n
    /\ started' # started => pc = "l94" /\ pc' = "l96"

\* C26: generation is driven by polling only.  While the consumer does not
\* poll the stream, no generation task is started, no item is emitted and
\* the nonce counter does not move.
C26_DrivenByPolling == [][C26_Step]_vars

\* C26 happens: the consumer is busy with a send, every counted period of
\* the interval has elapsed meanwhile, and the stream has generated nothing
\* beyond the item being sent.
C26_Witness ==
    /\ pc = "sending"
    /\ ticksFired = 1 + MaxTicks
    /\ interval.due >= MaxTicks
    /\ started = 1
    /\ nonce = 1
    /\ pending_future = <<>>

\* What the loop in progress has read shows its awaited condition: the
\* latest block at the number asked for (assert_new_block), the Finish
\* checkpoint at or above it (wait_until_block_is_available), the Headers
\* checkpoint equal to it (wait_unwind).
Observed(obs, c) ==
    CASE c.op = "assert_new_block" ->
             obs.latest # <<>> /\ obs.latest[1].number = c.number
      [] c.op = "wait_until_block_is_available" ->
             HasReachedFinishCheckpoint(obs.cp, c.number)
      [] c.op = "wait_unwind" ->
             WaitUnwindDone(obs.cp, c.number)
      [] OTHER -> FALSE

\* A polling loop is running.
InLoop == p_pc \in {"sleep", "read", "read_blk"}

\* C27, step part: a loop ends with Ok or an assertion only in a poll that
\* observed its condition, with Err only on a failed read; a poll whose
\* reads succeed and show the condition false goes back to the sleep; the
\* sleep goes on to the next poll.  Steps of the node between two steps of
\* the loop leave the loop where it is.
C27_Step ==
    (InLoop /\ p_pc' # p_pc) =>
        /\ p_pc' \in {"ok", "panic"} => ~p_obs'.err /\ Observed(p_obs', p_call)
        /\ p_pc' = "err" => p_obs'.err
        /\ (p_pc = "read" /\ ~p_obs'.err /\ ~Observed(p_obs', p_call))
              => p_pc' = "sleep"
        /\ p_pc = "sleep" => p_pc' = "read"
        /\ p_pc' # "idle"

\* C27: each polling loop retries without a bound on the number of polls;
\* it ends only when a poll observes the awaited condition (Ok or a fatal
\* assertion) or a provider read fails (Err), so with the condition false
\* at every poll and no failing read the call never returns.
C27_LoopsEndOnlyOnCondition == [][C27_Step]_vars

\* C27 happens: wait_unwind is back at its sleep after a poll that read a
\* checkpoint other than the one awaited.
C27_Witness ==
    /\ p_call.op = "wait_unwind"
    /\ p_pc = "sleep"
    /\ p_obs.polled
    /\ p_obs.retried
    /\ p_obs.cp # <<>>
    /\ ~Observed(p_obs, p_call)

\* ---------------------------------------------------- WalletGenerator

\* Longest path passed to derivation_path, in characters, and the most
\* wallets asked of gen_many.
MaxPath == 2
MaxAmount == 2

\* The characters paths are made of, the phrases and the chain ids tried.
PathChars == {"m", "/", "1"}
Paths == UNION {[1..k -> PathChars] : k \in 0..MaxPath}
Phrases == {TEST_MNEMONIC, "legal winner thank year wave sausage worth useful legal winner thank yellow"}
ChainIds == {1, 10}

\* str::ends_with('/').
EndsWithSlash(path) == path # <<>> /\ path[Len(path)] = "/"

\* The decimal digits, and what `{}` formats a usize as.
DigitChars == <<"0", "1", "2", "3", "4", "5", "6", "7", "8", "9">>

RECURSIVE Digits(_)
Digits(index) ==
    IF index < 10 THEN <<DigitChars[index + 1]>>
    ELSE Digits(index \div 10) \o <<DigitChars[(index % 10) + 1]>>

\* WalletGenerator::derivation_path, lines 47-54: push '/' unless the path
\* ends with one, store it.
SetDerivationPath(g, derivation_path) ==
    LET path == IF ~EndsWithSlash(derivation_path)
                THEN derivation_path \o <<"/">> ELSE derivation_path
    IN  [g EXCEPT !.derivation_path = path]

\* WalletGenerator::get_derivation_path, lines 56-58:
\* format!("m/44'/60'/0'/0/{}", index).
GetDerivationPath(g, index) ==
    <<"m", "/", "4", "4", "'", "/", "6", "0", "'", "/", "0", "'", "/", "0", "/">>
        \o Digits(index)

\* WalletGenerator::generate_wallet, lines 73-82: the key of the mnemonic
\* builder is determined by the phrase and the derivation path.
GenerateWallet(g, index) ==
    LET derivation_path == GetDerivationPath(g, index)
        inner == [phrase |-> g.phrase, path |-> derivation_path,
                  chain_id |-> <<g.chain_id>>]
    IN  [inner |-> inner, tx_gen |-> [chain_id |-> g.chain_id]]

\* WalletGenerator::gen, lines 63-65.
Gen(g) == GenerateWallet(g, 0)

\* WalletGenerator::gen_many, lines 68-70.
GenMany(g, amount) == [i \in 1..amount |-> GenerateWallet(g, i - 1)]

\* builder call .phrase(phrase), lines 34-37.
WalletPhrase ==
    /\ \E phrase \in Phrases : w_gen' = [w_gen EXCEPT !.phrase = phrase]
    /\ UNCHANGED <<w_asked, w_ret, outsideWallet>>

\* builder call .chain_id(chain_id), lines 40-43.
WalletChainId ==
    /\ \E chain_id \in ChainIds : w_gen' = [w_gen EXCEPT !.chain_id = chain_id]
    /\ UNCHANGED <<w_asked, w_ret, outsideWallet>>

\* builder call .derivation_path(p).
WalletDerivationPath ==
    /\ \E p \in Paths :
         /\ w_gen' = SetDerivationPath(w_gen, p)
         /\ w_asked' = <<p>>
    /\ UNCHANGED <<w_ret, outsideWallet>>

\* gen().
WalletGen ==
    /\ w_ret' = [op |-> "gen", of |-> w_gen, asked |-> w_asked,
                 wallets |-> <<Gen(w_gen)>>]
    /\ UNCHANGED <<w_gen, w_asked, outsideWallet>>

\* gen_many(amount).
WalletGenMany ==
    /\ \E amount \in 0..MaxAmount :
         w_ret' = [op |-> "gen_many", of |-> w_gen, asked |-> w_asked,
                   wallets |-> GenMany(w_gen, amount)]
    /\ UNCHANGED <<w_gen, w_asked, outsideWallet>>

NextWallet ==
    \/ WalletPhrase
    \/ WalletChainId
    \/ WalletDerivationPath
    \/ WalletGen
    \/ WalletGenMany

SpecWallet == Init /\ [][NextWallet]_vars

\* The path a generator on which derivation_path(p) was called (or was
\* not) is to derive wallet `index` from: p, with '/' appended unless it
\* ends with one, followed by the index.
PathAskedFor(asked, index) ==
    LET base == IF asked = <<>> THEN DefaultDerivationPath
                ELSE IF EndsWithSlash(asked[1]) THEN asked[1]
                ELSE asked[1] \o <<"/">>
    IN  base \o Digits(index)

\* C28: derivation_path(p) sets the path used: the wallets returned by gen
\* and gen_many are derived, the i-th of them, from p normalised to end
\* with '/' followed by its index i; and gen() is gen_many(1)[0].
C28_DerivationPathUsed ==
    /\ \A i \in 1..Len(w_ret.wallets) :
         w_ret.wallets[i].inner.path = PathAskedFor(w_ret.asked, i - 1)
    /\ Gen(w_gen) = GenMany(w_gen, 1)[1]

\* What the generator keeps: gen() is gen_many(1)[0], and the field holds
\* the path asked for, normalised.
GenIsFirstOfMany ==
    /\ Gen(w_gen) = GenMany(w_gen, 1)[1]
    /\ w_asked # <<>> => w_gen.derivation_path \o Digits(0) = PathAskedFor(w_asked, 0)

\* C29, step part: the step of poll_next that emits is the poll of the
\* task in the slot (lines 87-92): it clears the slot and returns that
\* task's value at once, starting no task and consuming no tick.
C29_Step ==
    Len(produced') > Len(produced) =>
        /\ pc = "l87" /\ pending_future # <<>>
        /\ pending_future' = <<>>
        /\ poll_ret' = <<ReturnItem(produced'[Len(produced')])>>
        /\ produced'[Len(produced')].id = pending_future[1].id
        /\ pc' \notin {"l87", "l94", "l96"}
        /\ UNCHANGED <<started, interval, ticksFired, in_call>>

C30_Step ==
    /\ pc = "l96" /\ pc' # pc =>
          /\ pending_future # <<>>
          /\ UNCHANGED <<pending_future, produced, started, sends>>
          /\ IF interval.due = 0
             THEN /\ poll_ret' = <<ReturnPending>>
                  /\ pc' = "parked"
                  /\ interval'.due = 0
                  /\ in_call' = in_call
             ELSE /\ interval'.due = interval.due - 1
                  /\ in_call'.ticked
                  /\ pc' = "l87"
                  /\ poll_ret' = poll_ret
    /\ (pc' = "parked" /\ pc # "parked") =>
          /\ pc = "l96" /\ interval.due = 0
          /\ poll_ret' = <<ReturnPending>>
    /\ (pc = "l87" /\ Len(produced') > Len(produced)) =>
          /\ poll_ret' # <<ReturnPending>>
          /\ pc' = "sending"
    /\ (pc = "l94" /\ pc' # pc) =>
          /\ pc' = "l96"
          /\ pending_future' # <<>>
          /\ interval' = interval

NewPayloadOrder ==
    <<"np.new_payload", "np.expect_attr_event", "np.wait_for_built_payload",
      "np.get_payload", "np.expect_built_payload">>

\* The steps the new_payload of advance number k has made, as they returned.
NewPayloadStepsOf(k) ==
    SelectSeq(log, LAMBDA e : e.adv = k /\ e.op \in {NewPayloadOrder[j] : j \in 1..5})

\* What the new_payload of advance number k returned, if it has.
NewPayloadReturns(k) ==
    SelectSeq(log, LAMBDA e : e.adv = k /\ e.op = "new_payload")

\* C31, state part: the steps of every new_payload are a prefix of the five
\* steps in order, all but the last one ok and all about the attributes of
\* the first; getPayload is asked after the job of these attributes was
\* built; Ok carries the payload of that job; later calls have later
\* timestamps.
C31_Inv ==
    /\ \A k \in 1..(idx + 1) :
         LET L == NewPayloadStepsOf(k)
             R == NewPayloadReturns(k)
         IN  /\ Len(L) <= 5
             /\ \A j \in 1..Len(L) :
                  /\ L[j].op = NewPayloadOrder[j]
                  /\ j < Len(L) => L[j].res = "ok"
                  /\ L[j].a = L[1].a
             /\ Len(R) <= 1
             /\ (R # <<>> /\ R[1].res = "ok") =>
                  /\ Len(L) = 5
                  /\ L[5].res = "ok"
                  /\ Len(R[1].out) = 1
                  /\ R[1].out[1].hash = BuiltBlock(<<>>, L[1].a).hash
             /\ (k > 1 /\ L # <<>>) =>
                  /\ NewPayloadStepsOf(k - 1) # <<>>
                  /\ L[1].a > NewPayloadStepsOf(k - 1)[1].a
    /\ h_pc \in {"l175", "l177"} =>
         /\ job # <<>>
         /\ job[1].built
         /\ <<job[1].attr>> = cur.attr
    /\ h_pc = "l132" =>
         /\ cur.payload = <<job[1].block>>
         /\ cur.attr = <<job[1].attr>>

\* C31, step part: the timestamp handed to the attributes generator is new
\* at every new_payload, across calls too, and never goes back.
C31_Step ==
    /\ timestamp' >= timestamp
    /\ (h_pc = "l169" /\ h_pc' # h_pc) =>
          /\ timestamp' > timestamp
          /\ h_pc' = "l171" => cur'.attr = <<[timestamp |-> timestamp']>>

\* C31: new_payload calls the attributes generator with the next timestamp
\* and hands the attributes to the payload builder, receives the event of
\* these attributes, waits for the payload of their id to be built,
\* resolves it through getPayload, receives the built-payload event, in
\* this order and each after the previous one succeeded; it returns that
\* payload with the attributes; timestamps of successive calls increase.
C31_NewPayloadStepsInOrder == []C31_Inv /\ [][C31_Step]_vars

\* C31 happens: the new_payload of a second advance returned its payload.
C31_Witness ==
    /\ Len(NewPayloadStepsOf(2)) = 5
    /\ NewPayloadReturns(2) # <<>>
    /\ NewPayloadReturns(2)[1].res = "ok"
    /\ NewPayloadStepsOf(2)[1].a > NewPayloadStepsOf(1)[1].a

\* What block_by_number_or_tag(Latest) may answer: no block, or a block.
LatestAnswers ==
    {<<>>} \cup {<<[number |-> n, hash |-> h]>> : n \in 0..MaxHeight, h \in Hashes}

\* C32, state part: assert_new_block has returned Ok only from a poll that
\* read a latest block with the number and the hash it was called with, and
\* has panicked only from one that read that number with another hash;
\* whatever the provider answers, one poll ends Ok on number and hash,
\* aborts on the number with another hash, and retries on no block or on a
\* block at another height.
C32_Inv ==
    p_call.op = "assert_new_block" =>
        /\ p_pc = "ok" =>
              p_obs.latest = <<[number |-> p_call.number, hash |-> p_call.hash]>>
        /\ p_pc = "panic" =>
              /\ p_obs.latest # <<>>
              /\ p_obs.latest[1].number = p_call.number
              /\ p_obs.latest[1].hash # p_call.hash
        /\ \A latest \in LatestAnswers :
              LET res == AnbOutcome(latest, p_call.hash, p_call.number)
                  at == latest # <<>> /\ latest[1].number = p_call.number
              IN  /\ res = "ok" <=> (at /\ latest[1].hash = p_call.hash)
                  /\ res = "panic" <=> (at /\ latest[1].hash # p_call.hash)
                  /\ res = "retry" <=> ~at

\* C32, step part: the poll that read the latest block ends the call or
\* goes back to the sleep according to that block alone.
C32_Step ==
    (p_call.op = "assert_new_block" /\ p_pc = "read" /\ p_pc' # p_pc
         /\ ~p_obs'.err) =>
        LET latest == p_obs'.latest
            at == latest # <<>> /\ latest[1].number = p_call.number
        IN  /\ latest = LatestBlock(canon)
            /\ p_pc' = "ok" <=> (at /\ latest[1].hash = p_call.hash)
            /\ p_pc' = "panic" <=> (at /\ latest[1].hash # p_call.hash)
            /\ p_pc' = "sleep" <=> ~at

\* C32: assert_new_block(hash, number) returns Ok only if at one poll the
\* latest block had number `number` and hash `hash`; a poll that finds the
\* latest block at `number` with another hash aborts instead of retrying;
\* a poll that finds no latest block, or one at another height, retries.
C32_AssertNewBlock == []C32_Inv /\ [][C32_Step]_vars

\* C32 happens: after a retry, a poll found the awaited number with another
\* hash and the call aborted.
C32_Witness ==
    /\ p_call.op = "assert_new_block"
    /\ p_pc = "panic"
    /\ p_obs.retried
    /\ p_obs.latest # <<>>
    /\ p_obs.latest[1].number = p_call.number
    /\ p_obs.latest[1].hash # p_call.hash

\* How far a stage checkpoint is: a stage that has no checkpoint yet is
\* before block 0, a checkpoint at block n is n + 1 blocks on.
CheckpointHeight(cp) == IF cp = <<>> THEN 0 ELSE cp[1] + 1

\* The head of the pending fork-choice update is not the block the node
\* has at that height: it is on another branch.
ForkchoiceToOtherBranch ==
    /\ fcuTarget # <<>>
    /\ BlockByNumber(canon, fcuTarget[1].number) # <<>>
    /\ BlockByNumber(canon, fcuTarget[1].number)[1].hash # fcuTarget[1].hash

\* A step of the test: one of its lines ran, or one of the polling loops it
\* called moved.
HarnessStep ==
    \/ t_pc' # t_pc
    \/ <<p_pc, p_call, p_obs>>' # <<p_pc, p_call, p_obs>>
    \/ submits' # submits

\* C33, one step: a checkpoint goes down only when the node unwinds for a
\* fork-choice update to a block on another branch, and then it comes to
\* the parent of that block; the steps of the harness write no checkpoint.
C33_Step ==
    /\ \A cp \in {<<finish_cp, finish_cp'>>, <<headers_cp, headers_cp'>>} :
         CheckpointHeight(cp[2]) < CheckpointHeight(cp[1]) =>
             /\ ForkchoiceToOtherBranch
             /\ cp[2] = <<fcuTarget[1].number - 1>>
             /\ Len(canon') < Len(canon)
    /\ HarnessStep => UNCHANGED <<finish_cp, headers_cp>>

\* C33: the Headers and Finish checkpoints of a node never decrease except
\* in the unwind caused by a fork-choice update to a block on another
\* branch; with forward progress only they are non-decreasing; no operation
\* of the harness writes a checkpoint.
C33_CheckpointsMonotonic == [][C33_Step]_vars

\* C33 happens: the node synced to the tip and then unwound below it for
\* the head of the other branch.
C33_Witness ==
    /\ fcuTarget # <<>>
    /\ fcuTarget[1].hash = SidePayloadChain(0).hash
    /\ headers_cp = <<tip - reorg_depth>>
    /\ finish_cp = <<tip - reorg_depth>>
    /\ Len(canon) = tip - reorg_depth

\* C34, state part: a call that found the slot empty at
\* inject_pending_stream has aborted there, with nothing else done: no
\* payload was requested; the slot is empty whenever its last stream was
\* injected.
C34_Inv ==
    /\ (log # <<>> /\ log[1].op = "inject_pending_stream" /\ log[1].res = "panic") =>
          /\ h_pc = "panic"
          /\ Len(log) = 1
          /\ PayloadRequests = <<>>
          /\ chain = <<>>
    /\ (tx_stream # <<>>) => \A i \in 1..Len(spawned) : spawned[i] # tx_stream[1]
    /\ (spawned # <<>> /\ spawned[Len(spawned)] = streamsMade) => tx_stream = <<>>

\* C34, step part: inject_pending_stream (called by the test or at the top
\* of advance_many) takes the stream out of the slot, or aborts when the
\* slot is empty, leaving the node's payload builder untouched; only
\* set_tx_generator fills the slot; advance leaves slot and stream alone
\* and runs with the slot empty or full.
C34_Step ==
    /\ (h_pc = "l107" /\ h_pc' # h_pc) =>
          IF tx_stream = <<>>
          THEN /\ h_pc' = "panic"
               /\ UNCHANGED <<tx_stream, spawned, timestamp, job, tree>>
          ELSE /\ tx_stream' = <<>>
               /\ spawned' = Append(spawned, tx_stream[1])
               /\ h_pc' # "panic"
    /\ (tx_stream' # tx_stream /\ tx_stream' # <<>>) =>
          /\ h_pc = "idle" /\ h_pc' = "idle"
          /\ streamsMade' = streamsMade + 1
          /\ tx_stream' = <<streamsMade'>>
    /\ (call.op = "advance" /\ h_pc # "idle") =>
          UNCHANGED <<tx_stream, spawned>>
    /\ (h_pc = "idle" /\ call'.op = "advance" /\ h_pc' # "idle") =>
          /\ h_pc' = "l169"
          /\ UNCHANGED <<tx_stream, spawned>>

\* C34: inject_pending_stream moves the stream out of the context; with the
\* slot empty and no set_tx_generator in between, a further
\* inject_pending_stream or advance_many aborts ('TransactionStream is not
\* set') before any payload is requested; advance alone neither needs nor
\* consumes the stream.
C34_StreamMovedOut == []C34_Inv /\ [][C34_Step]_vars

\* C34 happens: after an injection, advance_many for some blocks aborted at
\* its first line.
C34_Witness ==
    /\ h_pc = "panic"
    /\ call.op = "advance_many"
    /\ call.length > 0
    /\ spawned # <<>>
    /\ tx_stream = <<>>
    /\ Len(log) = 1
    /\ log[1].op = "inject_pending_stream"
    /\ log[1].res = "panic"

\* Also reached: advance returned Ok on a context whose stream had been
\* injected before.
C34_WitnessAdvance ==
    /\ AdvanceReturnedOk
    /\ call.op = "advance"
    /\ tx_stream = <<>>
    /\ spawned # <<>>

\* C35, step part: the step in which a send returns, Ok or Err, hands the
\* task back to the stream and touches neither the stream nor the counter;
\* the counter never goes down.
C35_Step ==
    /\ nonce' >= nonce
    /\ (pc = "sending" /\ pc' # pc) =>
          /\ pc' = "ready"
          /\ sends'[Len(sends)].done \in {"ok", "err"}
          /\ UNCHANGED <<nonce, pending_future, produced, started>>

\* C35: a failed send does not stop the injection task: the error is
\* logged, the task asks for the next item and sends it, and the nonce of
\* the failed transaction is not given back: the next one has a later
\* nonce.
C35_FailedSendGoesOn ==
    /\ [][C35_Step]_vars
    /\ [](\A k \in 2..Len(sends) : sends[k].tx.nonce > sends[k - 1].tx.nonce)
    /\ \A k \in 1..(MaxTx - 1) :
         (Len(sends) = k /\ sends[k].done = "err")
            ~> (Len(sends) > k \/ pc = "panicked")

\* C35 happens: the send after a failed one has started, with the next
\* nonce.
C35_Witness ==
    /\ Len(sends) >= 2
    /\ sends[1].done = "err"
    /\ sends[2].tx.nonce = sends[1].tx.nonce + 1
    /\ nonce = 2

\* Calls of the holder that have failed: started, not in flight, nothing
\* produced.
FailedCalls == otherStarted - Len(other) - Len(produced)

\* C36, state part: with one holder the counter is the number of
\* transactions signed and returned, whatever number of calls failed, and
\* the k-th of them carries nonce k - 1: none reused by two, none skipped.
C36_Inv ==
    /\ nonce = Len(produced)
    /\ \A k \in 1..Len(produced) : produced[k].nonce = k - 1
    /\ (other # <<>> /\ other[1].at # "lock_read") => other[1].n = nonce

\* C36, step part: the counter moves by one, in the step in which a signed
\* transaction is returned; the step in which a call fails leaves it.
C36_Step ==
    /\ nonce' # nonce =>
          /\ nonce' = nonce + 1
          /\ produced' = Append(produced, Tx("other", other[1]))
                 \/ (other[1].at = "lock_read"
                       /\ Len(produced') = Len(produced) + 1)
          /\ other' = <<>>
    /\ (other # <<>> /\ other' = <<>> /\ produced' = produced) =>
          nonce' = nonce

\* C36: the counter is incremented once per successfully signed
\* transaction and only after the signature succeeded; a failed signature
\* leaves it unchanged, so the next transaction has the nonce of the failed
\* one and no nonce is skipped.
C36_NonceAfterSigning == []C36_Inv /\ [][C36_Step]_vars

\* C36 happens: the first call failed, the second returned a transaction
\* with nonce 0.
C36_Witness ==
    /\ FailedCalls = 1
    /\ otherStarted = 2
    /\ other = <<>>
    /\ Len(produced) = 1
    /\ produced[1].id = 2
    /\ produced[1].nonce = 0
    /\ nonce = 1

\* ------------------------- the wallets of the node contexts, and clones

\* Node contexts made in one test, and transactions each of them signs.
MaxNodes == 2
MaxSigned == 2

\* The account of a wallet: the key the mnemonic builder derives from the
\* phrase along the derivation path (the chain id is no part of it).
WalletAddress(wallet) == [phrase |-> wallet.inner.phrase, path |-> wallet.inner.path]

CloneCellDeep(cell, fresh) == fresh

\* #[derive(Clone)] on Wallet and on TransactionTestContext, whose nonce is
\* an Arc<Mutex<u64>>: the clone refers to the counter of the original
\* (`fresh` is the counter a copy would get).
CloneCell(cell, fresh) == cell

\* The counters after a clone of a wallet on `cell` came to refer to `c`:
\* a counter that did not exist starts with the value of the original.
CellsAfterClone(cells, cell, c) ==
    IF c > Len(cells) THEN Append(cells, cells[cell]) ELSE cells

\* A call of eip1559 on a wallet whose counter is `cell`, not polled yet.
SigningTask(cell) == [cell |-> cell, read |-> <<>>, seen |-> 0]

\* NodeTestContext::new, lines 45-53: the wallet of the default generator
\* (index 0 of the test mnemonic, a new counter at 0), wall_clone, and the
\* closure that owns the wallet.
NodeNew ==
    /\ Len(w_nodes) < MaxNodes
    /\ LET wallet == Gen([WalletGeneratorNew EXCEPT !.chain_id = 1])
           cell == Len(w_cells) + 1
           cells == Append(w_cells, 0)
           wall_clone == CloneCell(cell, Len(cells) + 1)
       IN  /\ w_cells' = CellsAfterClone(cells, cell, wall_clone)
           /\ w_nodes' = Append(w_nodes,
                  [wallet |-> wall_clone, generator |-> cell,
                   sender |-> WalletAddress(wallet),
                   task |-> <<>>, call |-> <<>>, made |-> 0])
    /\ UNCHANGED <<w_signed, outsideClones>>

\* generator_fn, lines 49-52, invoked by the node's stream (one task at a
\* time): `let mut wallet = wallet.clone()`, then wallet.eip1559().
GeneratorInvoke ==
    /\ \E i \in 1..Len(w_nodes) :
         /\ w_nodes[i].task = <<>>
         /\ w_nodes[i].made < MaxSigned
         /\ LET c == CloneCell(w_nodes[i].generator, Len(w_cells) + 1)
            IN  /\ w_cells' = CellsAfterClone(w_cells, w_nodes[i].generator, c)
                /\ w_nodes' = [w_nodes EXCEPT ![i].task = <<SigningTask(c)>>,
                                              ![i].made = @ + 1]
    /\ UNCHANGED <<w_signed, outsideClones>>

\* The test signs through node.wallet: node.wallet.eip1559().
NodeWalletCall ==
    /\ \E i \in 1..Len(w_nodes) :
         /\ w_nodes[i].call = <<>>
         /\ w_nodes[i].made < MaxSigned
         /\ w_nodes' = [w_nodes EXCEPT ![i].call = <<SigningTask(w_nodes[i].wallet)>>,
                                       ![i].made = @ + 1]
    /\ UNCHANGED <<w_cells, w_signed, outsideClones>>

\* Transactions of node i returned so far.
SignedBy(signed, i) == SelectSeq(signed, LAMBDA x : x.node = i)

\* eip1559, line 130: the nonce is read under the lock.
SigningRead ==
    /\ \E i \in 1..Len(w_nodes), who \in {"task", "call"} :
         /\ w_nodes[i][who] # <<>>
         /\ w_nodes[i][who][1].read = <<>>
         /\ LET t == w_nodes[i][who][1]
            IN  w_nodes' = [w_nodes EXCEPT ![i][who] =
                    <<[t EXCEPT !.read = <<w_cells[t.cell]>>,
                                !.seen = Len(SignedBy(w_signed, i))]>>]
    /\ UNCHANGED <<w_cells, w_signed, outsideClones>>

\* sign_and_encode, lines 179-181: signed, inc_nonce, the transaction is
\* returned.
SigningDone ==
    /\ \E i \in 1..Len(w_nodes), who \in {"task", "call"} :
         /\ w_nodes[i][who] # <<>>
         /\ w_nodes[i][who][1].read # <<>>
         /\ LET t == w_nodes[i][who][1]
            IN  /\ w_cells' = [w_cells EXCEPT ![t.cell] = inc_nonce(@)]
                /\ w_signed' = Append(w_signed,
                       [node |-> i, by |-> who, sender |-> w_nodes[i].sender,
                        nonce |-> t.read[1], seen |-> t.seen])
         /\ w_nodes' = [w_nodes EXCEPT ![i][who] = <<>>]
    /\ UNCHANGED outsideClones

NextClones ==
    \/ NodeNew
    \/ GeneratorInvoke
    \/ NodeWalletCall
    \/ SigningRead
    \/ SigningDone

\* The node contexts of a network built without a shared generator, each
\* with its default stream and its wallet.
SpecClones == Init /\ [][NextClones]_vars

\* C37: all clones of a Wallet share one nonce counter: the wallet each
\* invocation of the default generator clones, the generator's own wallet
\* and node.wallet refer to the same counter, so every transaction of a
\* node carries the number of transactions of that node returned before
\* its nonce was read, whoever signed them: nonces do not restart at 0, and
\* a transaction signed through node.wallet advances the nonce the stream
\* uses next.
C37_ClonesShareCounter ==
    \A i \in 1..Len(w_nodes) :
        /\ w_nodes[i].wallet = w_nodes[i].generator
        /\ \A who \in {"task", "call"} :
             w_nodes[i][who] # <<>> => w_nodes[i][who][1].cell = w_nodes[i].generator
        /\ w_cells[w_nodes[i].generator] = Len(SignedBy(w_signed, i))
        /\ \A k \in 1..Len(SignedBy(w_signed, i)) :
             SignedBy(w_signed, i)[k].nonce = SignedBy(w_signed, i)[k].seen

\* C37 happens: on one node a transaction was signed through node.wallet
\* and the next invocation of the generator got the next nonce.
C37_Witness ==
    /\ Len(w_signed) = 2
    /\ w_signed[1].node = w_signed[2].node
    /\ w_signed[1].by = "call" /\ w_signed[1].nonce = 0
    /\ w_signed[2].by = "task" /\ w_signed[2].nonce = 1

\* C38: the transactions of the default streams of two different node
\* contexts never have the same sender and the same nonce.
C38_NoCollisionAcrossNodes ==
    \A a, b \in 1..Len(w_signed) :
        (w_signed[a].by = "task" /\ w_signed[b].by = "task"
            /\ w_signed[a].node # w_signed[b].node) =>
          <<w_signed[a].sender, w_signed[a].nonce>>
              # <<w_signed[b].sender, w_signed[b].nonce>>

\* Periods of the interval that elapsed since the call in progress entered
\* its loop.
ElapsedInCall == ticksFired - in_call.fired0

\* C39, state part.  A call has made one pass more than it consumed ticks,
\* and the ticks it can consume are those outstanding when it was made and
\* those of the periods that elapsed since; with no period elapsing inside
\* the call it makes at most one pass more than ticks were outstanding.  A
\* suspended stream has a wake-up pending, and a task it polled that can go
\* on has woken it.
C39_Inv ==
    /\ InPollNext =>
         /\ in_call.passes + interval.due = in_call.due0 + ElapsedInCall + 1
         /\ ElapsedInCall = 0 => in_call.passes <= in_call.due0 + 1
    /\ pc = "parked" =>
         /\ interval.waker \/ woken
         /\ pending_future # <<>>
         /\ (in_call.polled /\ ~pending_future[1].blocked) => woken

\* C39, step part: the step that returns Pending is the poll of the timer
\* finding no tick due, which registers the waker; the task in the slot was
\* polled to Pending in this call (it waits, or has woken the stream since),
\* unless this call started it in its only pass and nothing polled it yet.
C39_Step ==
    (pc' = "parked" /\ pc # "parked") =>
        /\ pc = "l96" /\ interval.due = 0
        /\ poll_ret' = <<ReturnPending>>
        /\ interval'.waker
        /\ in_call' = in_call
        /\ pending_future' = pending_future /\ pending_future # <<>>
        /\ IF in_call.polled
           THEN pending_future[1].blocked \/ woken
           ELSE /\ in_call.generated /\ in_call.passes = 1
                /\ pending_future[1] = NewTask(started)

====
